---- MODULE Spec2Model ----
(***************************************************************************)
(* Teachers GitLab (matfyz/gitlab/teachers_gitlab.py): batch commands that *)
(* resolve CSV rows to GitLab users and projects and reconcile protected   *)
(* branches, protected tags and project members against a desired state.   *)
(*                                                                         *)
(* The GitLab instance is the record glb.  A command is a pipeline of      *)
(* Python generators driven by the handler's for loop: a generator runs    *)
(* one row, and is resumed only when its consumer asks for the next item.  *)
(* Every remote call, log record and yielded pair is appended to trace,    *)
(* tagged with the invocation (run) and the input row it belongs to.       *)
(***************************************************************************)
EXTENDS Integers, Sequences, FiniteSets, TLC

\* ------------------------------------------------------------------ bounds
MaxRows == 2
MaxRuns == 2

\* --------------------------------------------------------------- constants
None == "None"

NO_ACCESS == 0
DEVELOPER == 30
MAINTAINER == 40

\* gitlab.const.AccessLevel: the members the commands name.  A member is an
\* IntEnum instance, here its name and its integer value.
AccessLevel ==
    { [name |-> "NO_ACCESS", value |-> NO_ACCESS],
      [name |-> "DEVELOPER", value |-> DEVELOPER],
      [name |-> "MAINTAINER", value |-> MAINTAINER] }

\* Access levels the model draws remote and desired configurations from.
BranchLevels == {DEVELOPER, MAINTAINER}
TagLevels == {NO_ACCESS, DEVELOPER, MAINTAINER}
MemberLevels == {DEVELOPER, MAINTAINER}

\* A value as Python sees it: a str, an int or an AccessLevel instance.
Str(v) == [type |-> "str", v |-> v]
Int_(v) == [type |-> "int", v |-> v]
Enum(v) == [type |-> "AccessLevel", v |-> v]

\* The text of a member's name, character by character.
Spelling(name) ==
    CASE name = "NO_ACCESS" -> <<"N", "O", "_", "A", "C", "C", "E", "S", "S">>
      [] name = "DEVELOPER" -> <<"D", "E", "V", "E", "L", "O", "P", "E", "R">>
      [] name = "MAINTAINER" -> <<"M", "A", "I", "N", "T", "A", "I", "N", "E", "R">>

\* What a KeyError of AccessLevel[level] leaves in place of a member.
NoLevel == [name |-> "KeyError", value |-> -1]

\* Mutant: the name is looked up ignoring the text given.
gitlab_get_access_level_first(level) ==
    CASE level.type = "str" -> CHOOSE l \in AccessLevel : l.value = NO_ACCESS
      [] level.type = "int" -> CHOOSE l \in AccessLevel : l.value = level.v
      [] level.type = "AccessLevel" -> level.v

\* gitlab_get_access_level: AccessLevel[name], AccessLevel(value), or the
\* instance itself.  The str of a name is its text, matched exactly.
gitlab_get_access_level(level) ==
    CASE level.type = "str" ->
            IF \E l \in AccessLevel : Spelling(l.name) = level.v
            THEN CHOOSE l \in AccessLevel : Spelling(l.name) = level.v
            ELSE NoLevel
      [] level.type = "int" -> CHOOSE l \in AccessLevel : l.value = level.v
      [] level.type = "AccessLevel" -> level.v

\* gitlab_extract_access_level: getattr(gl_object, access_type)[0]['access_level']
gitlab_extract_access_level(gl_object, access_type) ==
    gitlab_get_access_level(Int_(gl_object[access_type][1].access_level))

EmptyFn == [x \in {} |-> 0]
Drop(f, k) == [x \in DOMAIN f \ {k} |-> f[x]]
Put(f, k, v) == [x \in DOMAIN f \cup {k} |-> IF x = k THEN v ELSE f[x]]

Logins == {"alice", "bob"}
login_column == "login"

\* A CSV row: a mapping column -> value.  The last row has no login column.
Rows == {[login |-> l] : l \in Logins} \cup {[name |-> "x"]}

\* --project 'student/{login}'
project_template ==
    << [kind |-> "lit", text |-> "student/"], [kind |-> "col", text |-> "login"] >>

\* str.format(**entry): every {column} is replaced by the entry's value; a
\* column the entry does not have raises KeyError (ok = FALSE).
format(template, entry) ==
    IF \E i \in DOMAIN template :
          template[i].kind = "col" /\ template[i].text \notin DOMAIN entry
    THEN [ok |-> FALSE, value |-> <<>>]
    ELSE [ok |-> TRUE,
          value |-> [i \in DOMAIN template |->
                        IF template[i].kind = "lit" THEN template[i].text
                        ELSE entry[template[i].text]]]

Paths == {format(project_template, [login |-> l]).value : l \in Logins}

EntriesCommands == {"protect", "unprotect", "protect-tag", "unprotect-tag"}
UsersCommands == {"add-member", "remove-member"}
FileCommands == {"put-file", "create-tag"}
ReportCommands == {"get-pipeline-at-commit", "deadline-commit"}
\* accounts, and accounts --show-summary
AccountsCommands == {"accounts", "accounts --show-summary"}
\* The resolvers called directly, as the tests call the functions.
ResolverCalls == {"as_gitlab_projects", "as_existing_gitlab_projects", "accounts"}

PartialFns(D, R) == UNION {[S -> R] : S \in SUBSET D}

VARIABLES
    cmd,                 \* the command (or resolver) being run
    args,                \* its resolved parameter values
    entries,             \* the rows of the CSV, in input order
    glb,                 \* the GitLab instance: users, projects, sub-resources
    run,                 \* the invocation number
    pc,                  \* "running", "done" or "crashed" (uncaught exception)
    idx,                 \* the row the innermost generator reads next
    users,               \* user objects yielded by get_value, not yet consumed
    pairs,               \* pairs yielded by the project resolver, not yet consumed
    projects_by_path,    \* as_gitlab_projects: path -> project seen in this call
    processed_projects,  \* as_existing_gitlab_projects: paths seen in this call
    trace,               \* remote calls, log records and yields, in order
    argv,                \* the command line given to main
    parsed_options,      \* the argparse namespace, None before parse_args
    files,               \* the local files: path -> content
    result               \* the dictionary a reporting command collects and prints

vars == << cmd, args, entries, glb, run, pc, idx, users, pairs,
           projects_by_path, processed_projects, trace, argv, parsed_options, files, result >>

\* ------------------------------------------------------------------ events
Event(kind, op, project, key, data, ok) ==
    [kind |-> kind, run |-> 0, row |-> 0, op |-> op, project |-> project,
     key |-> key, data |-> data, ok |-> ok]

Call(op, project, key, data, ok) == Event("call", op, project, key, data, ok)
Log(level, msg, project, key) == Event("log", level, project, key, [msg |-> msg], TRUE)
\* "- Already exists with '%s' access, updating to '%s'."
LogUpdating(project, key, existing, desired) ==
    Event("log", "info", project, key,
          [msg |-> "Already exists, updating.", existing |-> existing, desired |-> desired],
          TRUE)
Yield(resolver, project, username, entry) ==
    Event("yield", resolver, project, username, entry, TRUE)
Raise(exc) == Event("raise", exc, <<>>, "", <<>>, FALSE)

Tag(events, row) ==
    [i \in DOMAIN events |-> [events[i] EXCEPT !.run = run, !.row = row]]

\* ------------------------------------------------------- the remote service
\* mg.get_canonical_project(glb, path): the project at the path, or
\* GitlabGetError when there is none.
get_canonical_project(g, project_path) ==
    IF project_path \in g.projects
    THEN [ok |-> TRUE, value |-> project_path]
    ELSE [ok |-> FALSE, value |-> None]

\* glb.users.list(username=...): the users with that username; without a
\* username filter (None) every user is listed.
users_list(g, username) ==
    IF username = None THEN g.users ELSE g.users \cap {username}

\* ----------------------------------------------------------------- exceptions
\* Mutant: `except gitlab.exceptions.GitlabGetError` in place of GitlabError.
IsGitlabGetError(exc) == exc = "GitlabGetError"

\* gitlab.GitlabError and the subclasses the python-gitlab mixins raise.
IsGitlabError(exc) ==
    exc \in {"GitlabGetError", "GitlabCreateError", "GitlabDeleteError",
             "GitlabUpdateError"}

\* ------------------------------------------------------------ generators
\* Mutant: eager generators, every stage runs ahead of its consumer.
resumed_eagerly(queue) == TRUE

\* A generator suspended at a yield runs again only when its consumer has
\* taken the yielded item and asks for the next one.
resumed(queue) == queue = <<>>

\* Mutant: the rows are read from the end.
row_at_reversed(rows, i) == rows[Len(rows) + 1 - i]

\* `for entry in self.entries`, `for user in data`: the i-th row of the input.
row_at(rows, i) == rows[i]

\* ------------------------------------------------------------ user objects
NoUser == [username |-> None, id |-> None, is_mock |-> FALSE, row |-> <<>>, n |-> 0]
UserObject(login) == [NoUser EXCEPT !.username = login, !.id = login]
\* class UserMock: carries only the requested login and the is_mock marker.
UserMock(login) == [NoUser EXCEPT !.username = login, !.is_mock = TRUE]

\* entry.get(login_column)
entry_get(entry, column) == IF column \in DOMAIN entry THEN entry[column] ELSE None

\* The answers the server may give when the users S match: S in any order.
Listings(S) ==
    {l \in [1..Cardinality(S) -> S] : \A i, j \in DOMAIN l : i # j => l[i] # l[j]}

\* Mutant: the last of the matching users is taken.
get_gitlab_user_last(matching_users, user_login, mock_users) ==
    IF Len(matching_users) = 0
    THEN IF mock_users THEN UserMock(user_login) ELSE NoUser
    ELSE UserObject(matching_users[Len(matching_users)])

\* UserListParameter.get_gitlab_user after `glb.users.list(username=user_login)`
\* has answered matching_users: `matching_users[0]`, a UserMock or None (NoUser).
get_gitlab_user(matching_users, user_login, mock_users) ==
    IF Len(matching_users) = 0
    THEN IF mock_users THEN UserMock(user_login) ELSE NoUser
    ELSE UserObject(matching_users[1])

\* Mutant: a UserMock counts as no user.
user_is_falsy_or_mock(user_obj) == user_obj.username = None \/ user_obj.is_mock

\* `if not user_obj`: only None is falsy, a UserMock is an object.
user_is_falsy(user_obj) == user_obj.username = None /\ ~user_obj.is_mock

\* Mutant: nothing is remembered, every row is looked up.
seen_before_never(cache, project_path) == FALSE

\* as_gitlab_projects: `if project := projects_by_path.get(project_path)`
seen_before(cache, project_path) == project_path \in DOMAIN cache

\* Mutant: a seen path is never skipped.
skip_seen_never(allow_duplicates, processed, project_path) == FALSE

\* Mutant: a seen path is skipped whatever allow_duplicates says.
skip_seen_always(allow_duplicates, processed, project_path) == project_path \in processed

\* Mutant: a seen path is skipped when duplicates are allowed, not when they
\* are suppressed.
skip_seen_inverted(allow_duplicates, processed, project_path) ==
    allow_duplicates /\ project_path \in processed

\* as_existing_gitlab_projects:
\* `if (not allow_duplicates) and (project_path in processed_projects)`
skip_seen(allow_duplicates, processed, project_path) ==
    (~allow_duplicates) /\ project_path \in processed

\* ---------------------------------------------------------- the resolvers
Crash(exc, row) ==
    /\ pc' = "crashed"
    /\ trace' = trace \o Tag(<<Raise(exc)>>, row)

\* ActionEntries.as_gitlab_users, one iteration of `for entry in self.entries`.
as_gitlab_users ==
    /\ pc = "running" /\ cmd \in AccountsCommands
    /\ idx <= Len(entries) /\ resumed(pairs)
    /\ LET entry == row_at(entries, idx)
           user_login == entry_get(entry, login_column)
           matching == IF user_login # None THEN users_list(glb, user_login) ELSE {}
           lookup(matching_users) ==
               IF user_login # None
               THEN <<Call("users.list", <<>>, user_login, matching_users, TRUE)>>
               ELSE <<>>
       IN  \/ \E matching_users \in Listings(matching) :
                \* `next(matching_users, None)`
                LET u == matching_users[1]
                IN  /\ matching # {}
                    /\ trace' = trace \o Tag(lookup(matching_users) \o
                                              <<Yield("as_gitlab_users", <<>>, u, entry)>>, idx)
                    /\ pairs' = pairs \o <<[row |-> idx, entry |-> entry,
                                            user |-> UserObject(u), project |-> <<>>]>>
           \/ /\ matching = {}
              /\ trace' = trace \o Tag(lookup(<<>>) \o
                    << Log("warning",
                           IF user_login # None THEN "User not found." ELSE "No login column.",
                           <<>>, user_login),
                       Yield("as_gitlab_users", <<>>, None, entry) >>, idx)
              /\ pairs' = pairs \o <<[row |-> idx, entry |-> entry, user |-> NoUser,
                                      project |-> <<>>]>>
    /\ idx' = idx + 1
    /\ UNCHANGED << cmd, args, entries, glb, run, pc, users, projects_by_path,
                    processed_projects >>
    /\ UNCHANGED << argv, parsed_options, files, result >>

\* ActionEntries.as_gitlab_projects, one iteration of `for entry in self.entries`.
as_gitlab_projects ==
    /\ pc = "running"
    /\ cmd \in EntriesCommands \cup FileCommands \cup ReportCommands \cup {"as_gitlab_projects"}
    /\ idx <= Len(entries) /\ resumed(pairs)
    /\ LET entry == row_at(entries, idx)
           f == format(project_template, entry)
           project_path == f.value
           found == get_canonical_project(glb, project_path)
           lookup == Call("projects.get", project_path, "", <<>>, found.ok)
           pair(project) == [row |-> idx, entry |-> entry, user |-> NoUser,
                             project |-> project]
           yield(project) == Yield("as_gitlab_projects", project, "", entry)
       IN  IF ~f.ok
           THEN /\ Crash("KeyError", idx)
                /\ UNCHANGED << idx, pairs, projects_by_path >>
           ELSE /\ idx' = idx + 1
                /\ pc' = pc
                /\ IF seen_before(projects_by_path, project_path)
                   THEN /\ UNCHANGED projects_by_path
                        /\ IF args.allow_duplicates
                           THEN /\ pairs' = pairs \o <<pair(projects_by_path[project_path])>>
                                /\ trace' = trace \o
                                      Tag(<<yield(projects_by_path[project_path])>>, idx)
                           ELSE UNCHANGED << pairs, trace >>
                   ELSE IF found.ok
                        THEN /\ projects_by_path' =
                                   Put(projects_by_path, project_path, found.value)
                             /\ pairs' = pairs \o <<pair(found.value)>>
                             /\ trace' = trace \o Tag(<<lookup, yield(found.value)>>, idx)
                        ELSE /\ trace' = trace \o
                                   Tag(<<lookup, Log("warning", "Project not found.",
                                                     project_path, "")>>, idx)
                             /\ UNCHANGED << pairs, projects_by_path >>
    /\ UNCHANGED << cmd, args, entries, glb, run, users, processed_projects >>
    /\ UNCHANGED << argv, parsed_options, files, result >>

\* UserListParameter.get_value, one iteration of `for user in data`.
UserListParameter_get_value ==
    /\ pc = "running" /\ cmd \in UsersCommands \cup {"as_existing_gitlab_projects", "fork"}
    /\ idx <= Len(entries) /\ resumed(users) /\ resumed(pairs)
    /\ LET user == row_at(entries, idx)
           user_login == entry_get(user, login_column)
       IN  \E matching_users \in Listings(users_list(glb, user_login)) :
              LET lookup == Call("users.list", <<>>, user_login, matching_users, TRUE)
                  user_obj == get_gitlab_user(matching_users, user_login, args.mock_users)
              IN  IF user_is_falsy(user_obj)
                  THEN /\ trace' = trace \o
                             Tag(<<lookup, Log("warning", "User not found.", <<>>, user_login)>>,
                                 idx)
                       /\ UNCHANGED users
                  ELSE /\ trace' = trace \o Tag(<<lookup>>, idx)
                       /\ users' = users \o <<[user_obj EXCEPT !.row = user, !.n = idx]>>
    /\ idx' = idx + 1
    /\ UNCHANGED << cmd, args, entries, glb, run, pc, pairs, projects_by_path,
                    processed_projects >>
    /\ UNCHANGED << argv, parsed_options, files, result >>

\* as_existing_gitlab_projects, one iteration of `for user in users`.
as_existing_gitlab_projects ==
    /\ pc = "running" /\ cmd \in UsersCommands \cup {"as_existing_gitlab_projects"}
    /\ users # <<>> /\ resumed(pairs)
    /\ LET user == Head(users)
           f == format(project_template, user.row)
           project_path == f.value
           found == get_canonical_project(glb, project_path)
           lookup == Call("projects.get", project_path, "", <<>>, found.ok)
       IN  IF ~f.ok
           THEN /\ Crash("KeyError", user.n)
                /\ UNCHANGED << users, pairs, processed_projects >>
           ELSE /\ users' = Tail(users)
                /\ pc' = pc
                /\ IF skip_seen(args.allow_duplicates, processed_projects, project_path)
                   THEN UNCHANGED << pairs, processed_projects, trace >>
                   ELSE /\ processed_projects' = processed_projects \cup {project_path}
                        /\ IF found.ok
                           THEN /\ pairs' = pairs \o
                                      <<[row |-> user.n, entry |-> user.row, user |-> user,
                                         project |-> found.value]>>
                                /\ trace' = trace \o
                                      Tag(<<lookup, Yield("as_existing_gitlab_projects",
                                                          found.value, user.username,
                                                          user.row)>>, user.n)
                           ELSE /\ trace' = trace \o
                                      Tag(<<lookup, Log("warning", "Project not found.",
                                                        project_path, user.username)>>, user.n)
                                /\ UNCHANGED pairs
    /\ UNCHANGED << cmd, args, entries, glb, run, idx, projects_by_path >>
    /\ UNCHANGED << argv, parsed_options, files, result >>

\* ------------------------------------------------- protected branches
\* The server's representation of a protected branch / tag.
ProtectedBranch(merge, push) ==
    [merge_access_levels |-> <<[access_level |-> merge]>>,
     push_access_levels |-> <<[access_level |-> push]>>]
ProtectedTag(create) == [create_access_levels |-> <<[access_level |-> create]>>]

Result(g, events, raised) == [glb |-> g, events |-> events, raised |-> raised]

\* _project_get_protected_branch: GitlabGetError means there is none.
project_get_protected_branch(g, project, branch_name) ==
    IF <<project, branch_name>> \in DOMAIN g.protectedbranches
    THEN [found |-> TRUE, value |-> g.protectedbranches[<<project, branch_name>>]]
    ELSE [found |-> FALSE, value |-> EmptyFn]

\* Mutant: the push level is compared with the desired merge level.
branch_levels_match_crossed(existing_merge_level, existing_push_level, merge_access_level, push_access_level) ==
    existing_merge_level = merge_access_level /\ existing_push_level = merge_access_level

\* Mutant: only the merge level is compared.
branch_levels_match_merge_only(existing_merge_level, existing_push_level, merge_access_level, push_access_level) ==
    existing_merge_level = merge_access_level

\* `existing_merge_level == merge_access_level and existing_push_level == push_access_level`
branch_levels_match(existing_merge_level, existing_push_level, merge_access_level, push_access_level) ==
    existing_merge_level = merge_access_level /\ existing_push_level = push_access_level

\* Mutant: the two levels are swapped in the dictionary.
protectedbranches_create_data_swapped(branch_name, merge_access_level, push_access_level) ==
    [name |-> branch_name,
     merge_access_level |-> push_access_level.value,
     push_access_level |-> merge_access_level.value]

\* The dictionary passed to project.protectedbranches.create (as JSON).
protectedbranches_create_data(branch_name, merge_access_level, push_access_level) ==
    [name |-> branch_name,
     merge_access_level |-> merge_access_level.value,
     push_access_level |-> push_access_level.value]

\* Mutant: a differing protected branch is not deleted before the create.
project_protect_branch_create_only(g, project, branch_name, merge_access_level, push_access_level, fails) ==
    LET protected_branch == project_get_protected_branch(g, project, branch_name)
        get == Call("protectedbranches.get", project, branch_name, EmptyFn,
                    protected_branch.found)
        data == protectedbranches_create_data(branch_name, merge_access_level,
                                              push_access_level)
        create_ok == "create" \notin fails /\ ~protected_branch.found
        create == Call("protectedbranches.create", project, data.name, data, create_ok)
    IN  IF protected_branch.found
           /\ branch_levels_match(
                 gitlab_extract_access_level(protected_branch.value, "merge_access_levels"),
                 gitlab_extract_access_level(protected_branch.value, "push_access_levels"),
                 merge_access_level, push_access_level)
        THEN Result(g, <<get>>, None)
        ELSE Result(IF create_ok
                    THEN [g EXCEPT !.protectedbranches =
                             Put(@, <<project, data.name>>,
                                 ProtectedBranch(data.merge_access_level,
                                                 data.push_access_level))]
                    ELSE g,
                    <<get, create>>,
                    IF create_ok THEN None ELSE "GitlabCreateError")

\* _project_protect_branch.  fails: the remote operations that fail if issued.
project_protect_branch(g, project, branch_name, merge_access_level, push_access_level, fails) ==
    LET key == <<project, branch_name>>
        protected_branch == project_get_protected_branch(g, project, branch_name)
        get == Call("protectedbranches.get", project, branch_name, EmptyFn,
                    protected_branch.found)
        existing_merge_level ==
            gitlab_extract_access_level(protected_branch.value, "merge_access_levels")
        existing_push_level ==
            gitlab_extract_access_level(protected_branch.value, "push_access_levels")
        delete_ok == "delete" \notin fails
        delete == Call("protectedbranches.delete", project, branch_name, EmptyFn, delete_ok)
        g1 == IF protected_branch.found
              THEN [g EXCEPT !.protectedbranches = Drop(@, key)] ELSE g
        data == protectedbranches_create_data(branch_name, merge_access_level,
                                              push_access_level)
        create_ok == "create" \notin fails /\ <<project, data.name>> \notin DOMAIN g1.protectedbranches
        create == Call("protectedbranches.create", project, data.name, data, create_ok)
        g2 == IF create_ok
              THEN [g1 EXCEPT !.protectedbranches =
                       Put(@, <<project, data.name>>,
                           ProtectedBranch(data.merge_access_level, data.push_access_level))]
              ELSE g1
        before == IF protected_branch.found
                  THEN <<get, LogUpdating(project, branch_name,
                                          <<existing_merge_level.name, existing_push_level.name>>,
                                          <<merge_access_level.name, push_access_level.name>>),
                         delete>>
                  ELSE <<get>>
    IN  IF protected_branch.found
           /\ branch_levels_match(existing_merge_level, existing_push_level,
                                  merge_access_level, push_access_level)
        THEN Result(g, <<get, Log("debug", "Already exists, skipping.", project,
                                  branch_name)>>, None)
        ELSE IF protected_branch.found /\ ~delete_ok
        THEN Result(g, before, "GitlabDeleteError")
        ELSE Result(g2, before \o <<create>>,
                    IF create_ok THEN None ELSE "GitlabCreateError")

\* _project_unprotect_branch
project_unprotect_branch(g, project, branch_name, fails) ==
    LET key == <<project, branch_name>>
        protected_branch == project_get_protected_branch(g, project, branch_name)
        get == Call("protectedbranches.get", project, branch_name, EmptyFn,
                    protected_branch.found)
        delete_ok == "delete" \notin fails
        delete == Call("protectedbranches.delete", project, branch_name, EmptyFn, delete_ok)
    IN  IF protected_branch.found
        THEN IF delete_ok
             THEN Result([g EXCEPT !.protectedbranches = Drop(@, key)], <<get, delete>>, None)
             ELSE Result(g, <<get, delete>>, "GitlabDeleteError")
        ELSE Result(g, <<get, Log("debug", "Protected branch not found.", project,
                                  branch_name)>>, None)

\* ----------------------------------------------------- protected tags
\* _project_get_protected_tag
project_get_protected_tag(g, project, tag_name) ==
    IF <<project, tag_name>> \in DOMAIN g.protectedtags
    THEN [found |-> TRUE, value |-> g.protectedtags[<<project, tag_name>>]]
    ELSE [found |-> FALSE, value |-> EmptyFn]

\* `existing_create_level == create_access_level`
tag_levels_match(existing_create_level, create_access_level) ==
    existing_create_level = create_access_level

\* The dictionary passed to project.protectedtags.create.
protectedtags_create_data(tag_name, create_access_level) ==
    [name |-> tag_name, create_access_level |-> create_access_level.value]

\* _project_protect_tag
project_protect_tag(g, project, tag_name, create_access_level, fails) ==
    LET key == <<project, tag_name>>
        protected_tag == project_get_protected_tag(g, project, tag_name)
        get == Call("protectedtags.get", project, tag_name, EmptyFn, protected_tag.found)
        existing_create_level ==
            gitlab_extract_access_level(protected_tag.value, "create_access_levels")
        delete_ok == "delete" \notin fails
        delete == Call("protectedtags.delete", project, tag_name, EmptyFn, delete_ok)
        g1 == IF protected_tag.found
              THEN [g EXCEPT !.protectedtags = Drop(@, key)] ELSE g
        data == protectedtags_create_data(tag_name, create_access_level)
        create_ok == "create" \notin fails /\ <<project, data.name>> \notin DOMAIN g1.protectedtags
        create == Call("protectedtags.create", project, data.name, data, create_ok)
        g2 == IF create_ok
              THEN [g1 EXCEPT !.protectedtags =
                       Put(@, <<project, data.name>>, ProtectedTag(data.create_access_level))]
              ELSE g1
        before == IF protected_tag.found
                  THEN <<get, LogUpdating(project, tag_name, <<existing_create_level.name>>,
                                          <<create_access_level.name>>),
                         delete>>
                  ELSE <<get>>
    IN  IF protected_tag.found /\ tag_levels_match(existing_create_level, create_access_level)
        THEN Result(g, <<get, Log("debug", "Already exists, skipping.", project,
                                  tag_name)>>, None)
        ELSE IF protected_tag.found /\ ~delete_ok
        THEN Result(g, before, "GitlabDeleteError")
        ELSE Result(g2, before \o <<create>>,
                    IF create_ok THEN None ELSE "GitlabCreateError")

\* _project_unprotect_tag
project_unprotect_tag(g, project, tag_name, fails) ==
    LET key == <<project, tag_name>>
        protected_tag == project_get_protected_tag(g, project, tag_name)
        get == Call("protectedtags.get", project, tag_name, EmptyFn, protected_tag.found)
        delete_ok == "delete" \notin fails
        delete == Call("protectedtags.delete", project, tag_name, EmptyFn, delete_ok)
    IN  IF protected_tag.found
        THEN IF delete_ok
             THEN Result([g EXCEPT !.protectedtags = Drop(@, key)], <<get, delete>>, None)
             ELSE Result(g, <<get, delete>>, "GitlabDeleteError")
        ELSE Result(g, <<get, Log("debug", "Protected tag not found.", project,
                                  tag_name)>>, None)

\* ------------------------------------------------------------- members
\* _project_get_member: project.members.get(user.id), None on GitlabGetError.
project_get_member(g, project, user) ==
    IF <<project, user.id>> \in DOMAIN g.members
    THEN [found |-> TRUE, value |-> [access_level |-> g.members[<<project, user.id>>]]]
    ELSE [found |-> FALSE, value |-> EmptyFn]

\* `existing_access_level == access_level`
member_levels_match(existing_access_level, access_level) ==
    existing_access_level = access_level

\* The dictionary passed to project.members.create.
members_create_data(user, access_level) ==
    [user_id |-> user.id, access_level |-> access_level.value]

\* _project_add_member
project_add_member(g, project, user, access_level, fails) ==
    LET key == <<project, user.id>>
        member == project_get_member(g, project, user)
        get == Call("members.get", project, user.id, EmptyFn, member.found)
        existing_access_level == gitlab_get_access_level(Int_(member.value.access_level))
        save_ok == "save" \notin fails
        save == Call("members.save", project, user.id,
                     [access_level |-> access_level.value], save_ok)
        data == members_create_data(user, access_level)
        create_ok == "create" \notin fails
                     /\ <<project, data.user_id>> \notin DOMAIN g.members
        create == Call("members.create", project, data.user_id, data, create_ok)
    IN  IF member.found
        THEN IF member_levels_match(existing_access_level, access_level)
             THEN Result(g, <<get, Log("debug", "Already exists, skipping.", project,
                                       user.id)>>, None)
             ELSE Result(IF save_ok
                         THEN [g EXCEPT !.members = Put(@, key, access_level.value)]
                         ELSE g,
                         <<get, LogUpdating(project, user.id, <<existing_access_level.name>>,
                                            <<access_level.name>>),
                           save>>,
                         IF save_ok THEN None ELSE "GitlabUpdateError")
        ELSE Result(IF create_ok
                    THEN [g EXCEPT !.members =
                             Put(@, <<project, data.user_id>>, data.access_level)]
                    ELSE g,
                    <<get, create>>,
                    IF create_ok THEN None ELSE "GitlabCreateError")

\* Mutant: the member is deleted without looking whether there is one.
project_remove_member_unchecked(g, project, user, fails) ==
    LET key == <<project, user.id>>
        delete_ok == "delete" \notin fails /\ key \in DOMAIN g.members
        delete == Call("members.delete", project, user.id, EmptyFn, delete_ok)
    IN  IF delete_ok
        THEN Result([g EXCEPT !.members = Drop(@, key)], <<delete>>, None)
        ELSE Result(g, <<delete>>, "GitlabDeleteError")

\* _project_remove_member
project_remove_member(g, project, user, fails) ==
    LET key == <<project, user.id>>
        member == project_get_member(g, project, user)
        get == Call("members.get", project, user.id, EmptyFn, member.found)
        delete_ok == "delete" \notin fails
        delete == Call("members.delete", project, user.id, EmptyFn, delete_ok)
    IN  IF member.found
        THEN IF delete_ok
             THEN Result([g EXCEPT !.members = Drop(@, key)], <<get, delete>>, None)
             ELSE Result(g, <<get, delete>>, "GitlabDeleteError")
        ELSE Result(g, <<get, Log("debug", "Member not found.", project, user.id)>>, None)

\* ------------------------------------------------------------ handlers
\* Mutant: a row that fails leaves the remote state as it found it.
LoopBody_rollback(pair, intro, r, failure) ==
    LET caught == r.raised # None /\ IsGitlabError(r.raised)
        after == IF r.raised = None THEN <<>>
                 ELSE IF caught THEN <<Log("error", failure, pair.project, r.raised)>>
                 ELSE <<Raise(r.raised)>>
    IN  /\ glb' = IF r.raised = None THEN r.glb ELSE glb
        /\ trace' = trace \o Tag(<<intro>> \o r.events \o after, pair.row)
        /\ pc' = IF r.raised # None /\ ~caught THEN "crashed" ELSE pc
        /\ pairs' = Tail(pairs)
        /\ UNCHANGED << cmd, args, entries, run, idx, users, projects_by_path,
                        processed_projects >>

\* The body of a handler's for loop around a reconciliation r of the pair at
\* the head of pairs: `try: ... except gitlab.GitlabError as exp: logger.error`.
LoopBody(pair, intro, r, failure) ==
    LET caught == r.raised # None /\ IsGitlabError(r.raised)
        after == IF r.raised = None THEN <<>>
                 ELSE IF caught THEN <<Log("error", failure, pair.project, r.raised)>>
                 ELSE <<Raise(r.raised)>>
    IN  /\ glb' = r.glb
        /\ trace' = trace \o Tag(<<intro>> \o r.events \o after, pair.row)
        /\ pc' = IF r.raised # None /\ ~caught THEN "crashed" ELSE pc
        /\ pairs' = Tail(pairs)
        /\ UNCHANGED << cmd, args, entries, run, idx, users, projects_by_path,
                        processed_projects >>

\* Mutant: --dry-run is not looked at, the member is added all the same.
DryRun_ignored(pair, intro) ==
    LoopBody(pair, intro,
             project_add_member(glb, pair.project, pair.user, args.access_level, {}),
             "Failed to add member")

\* `if dry_run: continue`
DryRun(pair, intro) ==
    /\ trace' = trace \o Tag(<<intro>>, pair.row)
    /\ pairs' = Tail(pairs)
    /\ UNCHANGED << cmd, args, entries, glb, run, pc, idx, users, projects_by_path,
                    processed_projects >>

action_protect_branch ==
    /\ pc = "running" /\ cmd = "protect" /\ pairs # <<>>
    /\ \E fails \in SUBSET {"delete", "create"} :
          LET pair == Head(pairs)
          IN  LoopBody(pair, Log("info", "Protecting branch", pair.project, args.branch_name),
                       project_protect_branch(glb, pair.project, args.branch_name,
                                              args.merge_access_level,
                                              args.push_access_level, fails),
                       "Failed to protect branch")
    /\ UNCHANGED << argv, parsed_options, files, result >>

action_unprotect_branch ==
    /\ pc = "running" /\ cmd = "unprotect" /\ pairs # <<>>
    /\ \E fails \in SUBSET {"delete"} :
          LET pair == Head(pairs)
          IN  LoopBody(pair, Log("info", "Unprotecting branch", pair.project, args.branch_name),
                       project_unprotect_branch(glb, pair.project, args.branch_name, fails),
                       "Failed to unprotect branch")
    /\ UNCHANGED << argv, parsed_options, files, result >>

action_protect_tag ==
    /\ pc = "running" /\ cmd = "protect-tag" /\ pairs # <<>>
    /\ \E fails \in SUBSET {"delete", "create"} :
          LET pair == Head(pairs)
          IN  LoopBody(pair, Log("info", "Protecting tag", pair.project, args.tag_name),
                       project_protect_tag(glb, pair.project, args.tag_name,
                                           args.create_access_level, fails),
                       "Failed to protect tag")
    /\ UNCHANGED << argv, parsed_options, files, result >>

action_unprotect_tag ==
    /\ pc = "running" /\ cmd = "unprotect-tag" /\ pairs # <<>>
    /\ \E fails \in SUBSET {"delete"} :
          LET pair == Head(pairs)
          IN  LoopBody(pair, Log("info", "Unprotecting tag", pair.project, args.tag_name),
                       project_unprotect_tag(glb, pair.project, args.tag_name, fails),
                       "Failed to unprotect tag")
    /\ UNCHANGED << argv, parsed_options, files, result >>

action_add_member ==
    /\ pc = "running" /\ cmd = "add-member" /\ pairs # <<>>
    /\ LET pair == Head(pairs)
           intro == Log("info", "Adding", pair.project, pair.user.username)
       IN  IF args.dry_run
           THEN DryRun(pair, intro)
           ELSE \E fails \in SUBSET {"save", "create"} :
                   LoopBody(pair, intro,
                            project_add_member(glb, pair.project, pair.user,
                                               args.access_level, fails),
                            "Failed to add member")
    /\ UNCHANGED << argv, parsed_options, files, result >>

action_remove_member ==
    /\ pc = "running" /\ cmd = "remove-member" /\ pairs # <<>>
    /\ LET pair == Head(pairs)
           intro == Log("info", "Removing", pair.project, pair.user.username)
       IN  IF args.dry_run
           THEN DryRun(pair, intro)
           ELSE \E fails \in SUBSET {"delete"} :
                   LoopBody(pair, intro,
                            project_remove_member(glb, pair.project, pair.user, fails),
                            "Failed to remove member")
    /\ UNCHANGED << argv, parsed_options, files, result >>

\* The caller of a resolver taking the next pair: list(...) in action_accounts,
\* the for loop of a direct call.
Consume ==
    /\ pc = "running" /\ cmd \in ResolverCalls /\ pairs # <<>>
    /\ pairs' = Tail(pairs)
    /\ UNCHANGED << cmd, args, entries, glb, run, pc, idx, users, projects_by_path,
                    processed_projects, trace >>
    /\ UNCHANGED << argv, parsed_options, files, result >>

\* The generators are exhausted: the handler returns.
Return ==
    /\ pc = "running" /\ idx > Len(entries) /\ users = <<>> /\ pairs = <<>>
    /\ cmd # "accounts --show-summary"
    /\ pc' = "done"
    /\ UNCHANGED << cmd, args, entries, glb, run, idx, users, pairs, projects_by_path,
                    processed_projects, trace >>
    /\ UNCHANGED << argv, parsed_options, files, result >>

\* main() again with the same command line: a new invocation against the
\* GitLab state the previous one left.
Rerun ==
    /\ pc = "done" /\ run < MaxRuns
    /\ cmd \in {"protect", "protect-tag", "add-member", "create-tag"}
    /\ run' = run + 1
    /\ pc' = "running"
    /\ idx' = 1
    /\ projects_by_path' = EmptyFn
    /\ processed_projects' = {}
    /\ UNCHANGED << cmd, args, entries, glb, users, pairs, trace >>
    /\ UNCHANGED << argv, parsed_options, files, result >>

\* ---------------------------------------------------------------- Init
Level(value) == CHOOSE l \in AccessLevel : l.value = value

DefaultArgs ==
    [branch_name |-> "main", tag_name |-> "v1",
     merge_access_level |-> Level(MAINTAINER), push_access_level |-> Level(MAINTAINER),
     create_access_level |-> Level(NO_ACCESS), access_level |-> Level(MAINTAINER),
     dry_run |-> FALSE, allow_duplicates |-> FALSE, mock_users |-> FALSE]

EmptyGitlab ==
    [users |-> {}, projects |-> {}, protectedbranches |-> EmptyFn,
     protectedtags |-> EmptyFn, members |-> EmptyFn,
     repository_files |-> EmptyFn, tags |-> EmptyFn, pipelines |-> EmptyFn,
     commits |-> EmptyFn]

EntryLists == UNION {[1..n -> Rows] : n \in 0..MaxRows}

BranchStates(projects) ==
    PartialFns(projects \X {DefaultArgs.branch_name},
               {ProtectedBranch(m, p) : m \in BranchLevels, p \in BranchLevels})
TagStates(projects) ==
    PartialFns(projects \X {DefaultArgs.tag_name}, {ProtectedTag(c) : c \in TagLevels})
\* Memberships: each user in the project of the own login, and bob also in
\* alice's project.
MemberStates(projects, logins) ==
    PartialFns({k \in projects \X logins :
                   k[1] = <<"student/", k[2]>> \/ k = <<<<"student/", "alice">>, "bob">>},
               MemberLevels)

\* alice and bob are interchangeable: the instances with the projects (users)
\* of none, of alice alone, and of both.
ProjectSets == {{}, {<<"student/", "alice">>}, Paths}
UserSets == {{}, {"alice"}, Logins}

InitArgs ==
    \/ /\ cmd = "protect"
       /\ \E m \in BranchLevels, p \in BranchLevels :
             args = [DefaultArgs EXCEPT !.merge_access_level = Level(m),
                                        !.push_access_level = Level(p)]
    \/ /\ cmd = "protect-tag"
       /\ \E c \in TagLevels : args = [DefaultArgs EXCEPT !.create_access_level = Level(c)]
    \/ /\ cmd \in {"unprotect", "unprotect-tag"}
       /\ args = DefaultArgs
    \/ /\ cmd = "add-member"
       /\ \E a \in MemberLevels, d \in BOOLEAN :
             args = [DefaultArgs EXCEPT !.access_level = Level(a), !.dry_run = d,
                                        !.allow_duplicates = TRUE]
    \/ /\ cmd = "remove-member"
       /\ \E d \in BOOLEAN :
             args = [DefaultArgs EXCEPT !.dry_run = d, !.allow_duplicates = TRUE]
    \/ /\ cmd \in {"as_gitlab_projects", "as_existing_gitlab_projects"}
       /\ \E d \in BOOLEAN : args = [DefaultArgs EXCEPT !.allow_duplicates = d]
    \/ /\ cmd = "accounts"
       /\ args = DefaultArgs

InitGitlab ==
    \E projects \in ProjectSets :
       \/ /\ cmd \in {"protect", "unprotect"}
          /\ \E b \in BranchStates(projects) :
                glb = [EmptyGitlab EXCEPT !.projects = projects, !.protectedbranches = b]
       \/ /\ cmd \in {"protect-tag", "unprotect-tag"}
          /\ \E t \in TagStates(projects) :
                glb = [EmptyGitlab EXCEPT !.projects = projects, !.protectedtags = t]
       \/ /\ cmd \in UsersCommands
          /\ \E logins \in UserSets :
                \E m \in MemberStates(projects, logins) :
                   glb = [EmptyGitlab EXCEPT !.projects = projects, !.users = logins,
                                             !.members = m]
       \/ /\ cmd = "as_gitlab_projects"
          /\ glb = [EmptyGitlab EXCEPT !.projects = projects]
       \/ /\ cmd \in {"as_existing_gitlab_projects", "accounts"}
          /\ \E logins \in UserSets :
                glb = [EmptyGitlab EXCEPT !.projects = projects, !.users = logins]

Init ==
    /\ cmd \in EntriesCommands \cup UsersCommands \cup ResolverCalls
    /\ InitArgs
    /\ entries \in EntryLists
    /\ InitGitlab
    /\ run = 1
    /\ pc = "running"
    /\ idx = 1
    /\ users = <<>>
    /\ pairs = <<>>
    /\ projects_by_path = EmptyFn
    /\ processed_projects = {}
    /\ trace = <<>>
    /\ result = EmptyFn
    /\ argv = <<>>
    /\ parsed_options = None
    /\ files = EmptyFn

Next ==
    \/ as_gitlab_users
    \/ as_gitlab_projects
    \/ UserListParameter_get_value
    \/ as_existing_gitlab_projects
    \/ action_protect_branch
    \/ action_unprotect_branch
    \/ action_protect_tag
    \/ action_unprotect_tag
    \/ action_add_member
    \/ action_remove_member
    \/ Consume
    \/ Return
    \/ Rerun

Spec == Init /\ [][Next]_vars

\* ========================================================== properties
MutatingOps ==
    {"protectedbranches.create", "protectedbranches.delete",
     "protectedtags.create", "protectedtags.delete",
     "members.create", "members.save", "members.delete"}
GetOps == {"protectedbranches.get", "protectedtags.get", "members.get"}

Mutating(e) == e.kind = "call" /\ e.op \in MutatingOps
FailedMutation(e) == Mutating(e) /\ ~e.ok
SameResource(e, f) == e.project = f.project /\ e.key = f.key

\* The events one step appends, and the mutating calls among them.
NewEvents == SubSeq(trace', Len(trace) + 1, Len(trace'))
NewMutations == SelectSeq(NewEvents, Mutating)

\* A step of command c's loop body that reconciles the pair at the head of pairs.
Reconciles(c) ==
    /\ pc = "running" /\ cmd = c /\ pairs # <<>> /\ ~args.dry_run
    /\ pairs' = Tail(pairs)

Max(S) == CHOOSE x \in S : \A y \in S : y <= x

DesiredBranch ==
    ProtectedBranch(args.merge_access_level.value, args.push_access_level.value)
DesiredTag == ProtectedTag(args.create_access_level.value)

\* The start of an application of the desired state to a resource: its fetch.
GetsBefore(j) ==
    {i \in 1..(j - 1) : trace[i].kind = "call" /\ trace[i].op \in GetOps
                        /\ SameResource(trace[i], trace[j])}

\* C1: protect, protect-tag and add-member are idempotent.  Whenever a
\* reconciliation issues a create, save or delete call on a resource, the
\* previous application of the same desired levels to that resource (an
\* earlier row of the batch, or the previous invocation), if there was one,
\* had a remote call fail: after an application that went through, applying
\* the same levels again is a no-op.
C1_Idempotent ==
    cmd \in {"protect", "protect-tag", "add-member"} =>
       \A j \in DOMAIN trace :
          Mutating(trace[j]) =>
             LET this == Max(GetsBefore(j))
                 prior == GetsBefore(this)
             IN  prior # {} =>
                    \E f \in Max(prior)..this :
                       FailedMutation(trace[f]) /\ SameResource(trace[f], trace[j])

\* A second invocation fetched a protected branch that the first created.
C1_Witness ==
    /\ pc = "done" /\ run = 2
    /\ \E i, j \in DOMAIN trace :
          /\ trace[i].run = 1 /\ trace[i].op = "protectedbranches.create" /\ trace[i].ok
          /\ trace[j].run = 2 /\ trace[j].op = "protectedbranches.get" /\ trace[j].ok
          /\ SameResource(trace[i], trace[j])

C2_Step ==
    /\ \A c \in {"protect", "protect-tag"} :
          LET project == Head(pairs).project
              key == <<project, IF c = "protect" THEN args.branch_name ELSE args.tag_name>>
              current == IF c = "protect" THEN glb.protectedbranches ELSE glb.protectedtags
              desired == IF c = "protect" THEN DesiredBranch ELSE DesiredTag
              prefix == IF c = "protect" THEN "protectedbranches" ELSE "protectedtags"
              M == NewMutations
          IN  (Reconciles(c) /\ key \in DOMAIN current /\ current[key] # desired) =>
                 /\ Len(M) \in {1, 2}
                 /\ \A i \in DOMAIN M : M[i].project = project /\ M[i].key = key[2]
                 /\ M[1].op = IF c = "protect" THEN "protectedbranches.delete"
                              ELSE "protectedtags.delete"
                 /\ M[1].ok <=> Len(M) = 2
                 /\ Len(M) = 2 =>
                       M[2].op = IF c = "protect" THEN "protectedbranches.create"
                                 ELSE "protectedtags.create"
    /\ LET project == Head(pairs).project
           key == <<project, Head(pairs).user.id>>
           M == NewMutations
       IN  (Reconciles("add-member") /\ key \in DOMAIN glb.members
               /\ glb.members[key] # args.access_level.value) =>
              /\ Len(M) = 1
              /\ M[1].op = "members.save"
              /\ M[1].project = project /\ M[1].key = key[2]
              /\ M[1].data.access_level = args.access_level.value
              /\ M[1].ok => glb'.members = Put(glb.members, key, args.access_level.value)

\* C2: reconciling a protected branch or tag whose levels differ from the
\* desired ones issues delete first and, once the delete went through, create,
\* and nothing else (no update call); reconciling a member whose level differs
\* issues exactly one in-place update (save) and no delete or create.
C2_DeleteThenCreate == [][C2_Step]_vars

\* The scenario of the specification: `main` protected with merge = DEVELOPER,
\* push = MAINTAINER, desired MAINTAINER/MAINTAINER: delete, then create.
C2_Witness ==
    /\ cmd = "protect" /\ pc = "done"
    /\ \E i \in 2..(Len(trace) - 1) :
          /\ trace[i - 1].kind = "log" /\ trace[i - 1].data.msg = "Already exists, updating."
          /\ trace[i - 1].data.existing = <<"DEVELOPER", "MAINTAINER">>
          /\ trace[i - 1].data.desired = <<"MAINTAINER", "MAINTAINER">>
          /\ trace[i].op = "protectedbranches.delete" /\ trace[i].ok
          /\ trace[i + 1].op = "protectedbranches.create" /\ trace[i + 1].ok

C3_Step ==
    /\ LET project == Head(pairs).project
           key == <<project, args.branch_name>>
           M == NewMutations
       IN  (Reconciles("protect") /\ key \notin DOMAIN glb.protectedbranches) =>
              /\ Len(M) = 1
              /\ M[1].op = "protectedbranches.create" /\ M[1].project = project
              /\ M[1].data = [name |-> args.branch_name,
                              merge_access_level |-> args.merge_access_level.value,
                              push_access_level |-> args.push_access_level.value]
              /\ M[1].ok =>
                    glb'.protectedbranches = Put(glb.protectedbranches, key, DesiredBranch)
    /\ LET project == Head(pairs).project
           key == <<project, args.tag_name>>
           M == NewMutations
       IN  (Reconciles("protect-tag") /\ key \notin DOMAIN glb.protectedtags) =>
              /\ Len(M) = 1
              /\ M[1].op = "protectedtags.create" /\ M[1].project = project
              /\ M[1].data = [name |-> args.tag_name,
                              create_access_level |-> args.create_access_level.value]
              /\ M[1].ok => glb'.protectedtags = Put(glb.protectedtags, key, DesiredTag)
    /\ LET project == Head(pairs).project
           user == Head(pairs).user
           key == <<project, user.id>>
           M == NewMutations
       IN  (Reconciles("add-member") /\ key \notin DOMAIN glb.members) =>
              /\ Len(M) = 1
              /\ M[1].op = "members.create" /\ M[1].project = project
              /\ M[1].data = [user_id |-> user.id,
                              access_level |-> args.access_level.value]
              /\ M[1].ok =>
                    glb'.members = Put(glb.members, key, args.access_level.value)

\* C3: when the resource is absent, reconciliation issues exactly one create
\* call, naming the resource and carrying exactly the desired levels, and no
\* delete or update; when that call goes through the resource is present with
\* the desired configuration.
C3_AbsentCreates == [][C3_Step]_vars

\* The scenario of the specification: `main` unprotected, one create call with
\* merge = push = MAINTAINER.
C3_Witness ==
    \E i \in 2..Len(trace) :
       /\ trace[i - 1].op = "protectedbranches.get" /\ ~trace[i - 1].ok
       /\ trace[i].op = "protectedbranches.create" /\ trace[i].ok
       /\ trace[i].data = [name |-> "main", merge_access_level |-> MAINTAINER,
                           push_access_level |-> MAINTAINER]
       /\ <<trace[i].project, "main">> \in DOMAIN glb.protectedbranches

C4_Step ==
    /\ LET key == <<Head(pairs).project, args.branch_name>>
           current == glb.protectedbranches[key]
           same == /\ current.merge_access_levels[1].access_level
                         = args.merge_access_level.value
                   /\ current.push_access_levels[1].access_level
                         = args.push_access_level.value
           M == NewMutations
       IN  (Reconciles("protect") /\ key \in DOMAIN glb.protectedbranches) =>
              /\ same => (M = <<>> /\ glb' = glb)
              /\ ~same =>
                    /\ M # <<>>
                    /\ (\A i \in DOMAIN M : M[i].ok) =>
                          glb'.protectedbranches[key] = DesiredBranch
    /\ LET key == <<Head(pairs).project, args.tag_name>>
           current == glb.protectedtags[key]
           same == current.create_access_levels[1].access_level
                      = args.create_access_level.value
           M == NewMutations
       IN  (Reconciles("protect-tag") /\ key \in DOMAIN glb.protectedtags) =>
              /\ same => (M = <<>> /\ glb' = glb)
              /\ ~same =>
                    /\ M # <<>>
                    /\ (\A i \in DOMAIN M : M[i].ok) => glb'.protectedtags[key] = DesiredTag

\* C4: a present protected branch or tag is left alone (no mutating call, the
\* GitLab state unchanged) only if every tracked access level equals the
\* desired one; if any one differs (the merge level alone, the push level
\* alone) it is corrected: mutating calls are issued and, when they go
\* through, the resource has the desired levels.
C4_ExactMatch == [][C4_Step]_vars

\* One batch corrected a branch whose merge level alone differed and a branch
\* whose push level alone differed.
C4_Witness ==
    /\ cmd = "protect"
    /\ \E i, j \in 1..(Len(trace) - 2) :
          /\ trace[i].kind = "log" /\ trace[i].data.msg = "Already exists, updating."
          /\ trace[i].data.existing[1] # trace[i].data.desired[1]
          /\ trace[i].data.existing[2] = trace[i].data.desired[2]
          /\ trace[i + 1].ok /\ trace[i + 2].ok
          /\ trace[j].kind = "log" /\ trace[j].data.msg = "Already exists, updating."
          /\ trace[j].data.existing[1] = trace[j].data.desired[1]
          /\ trace[j].data.existing[2] # trace[j].data.desired[2]
          /\ trace[j + 1].ok /\ trace[j + 2].ok

\* The rows of the batch a command reconciles: the resolver yields them.
Resolves(k) ==
    LET f == format(project_template, entries[k])
    IN  /\ f.ok
        /\ f.value \in glb.projects
        /\ IF cmd \in EntriesCommands
           THEN \A h \in 1..(k - 1) : format(project_template, entries[h]) # f
           ELSE entries[k][login_column] \in glb.users

IntroMessages ==
    {"Protecting branch", "Unprotecting branch", "Protecting tag", "Unprotecting tag",
     "Adding", "Removing"}

\* C5: in protect, unprotect, protect-tag, unprotect-tag, add-member and
\* remove-member a failing remote call is caught and logged as an error right
\* away, never propagates out of the loop, and does not keep the batch from
\* processing every later project the resolver yields.
C5_FailureIsolated ==
    cmd \in EntriesCommands \cup UsersCommands =>
       /\ \A i \in DOMAIN trace :
             /\ FailedMutation(trace[i]) =>
                   /\ i < Len(trace)
                   /\ trace[i + 1].kind = "log" /\ trace[i + 1].op = "error"
                   /\ trace[i + 1].row = trace[i].row /\ trace[i + 1].run = trace[i].run
             /\ trace[i].kind = "raise" => ~IsGitlabError(trace[i].op)
       /\ pc = "done" =>
             \A r \in 1..run, k \in DOMAIN entries :
                Resolves(k) =>
                   \E i \in DOMAIN trace :
                      /\ trace[i].kind = "log" /\ trace[i].data.msg \in IntroMessages
                      /\ trace[i].run = r /\ trace[i].row = k

\* A remote call failed for the first row and the second row was reconciled.
C5_Witness ==
    /\ pc = "done"
    /\ \E i, j \in DOMAIN trace :
          /\ i < j /\ trace[i].run = trace[j].run
          /\ FailedMutation(trace[i]) /\ trace[i].row = 1
          /\ Mutating(trace[j]) /\ trace[j].ok /\ trace[j].row = 2


\* ------------------------------------------- the resolvers called directly
\* One call of a resolver whose caller takes every pair, as the tests and
\* `list(entries.as_gitlab_users(...))` in action_accounts do.
InitResolvers == Init /\ cmd \in ResolverCalls

NextResolvers ==
    \/ as_gitlab_users
    \/ as_gitlab_projects
    \/ UserListParameter_get_value
    \/ as_existing_gitlab_projects
    \/ Consume
    \/ Return

SpecResolvers == InitResolvers /\ [][NextResolvers]_vars

\* ------------------------------------------------ the resolvers, per row
\* The project resolver the command runs.
ProjectResolver ==
    IF cmd \in EntriesCommands \cup FileCommands \cup ReportCommands \cup {"as_gitlab_projects"}
    THEN "as_gitlab_projects"
    ELSE IF cmd \in UsersCommands \cup {"as_existing_gitlab_projects"}
         THEN "as_existing_gitlab_projects"
         ELSE None

EventsOf(r, k) == {i \in DOMAIN trace : trace[i].run = r /\ trace[i].row = k}
Yields(r, k) == {i \in EventsOf(r, k) : trace[i].kind = "yield"}
Warnings(r, k) == {i \in EventsOf(r, k) : trace[i].kind = "log" /\ trace[i].op = "warning"}
NotFound(r, k) == {i \in Warnings(r, k) : trace[i].data.msg = "Project not found."}
Lookups(r, k) ==
    {i \in EventsOf(r, k) : trace[i].kind = "call" /\ trace[i].op = "projects.get"}
Raises(r, k) == {i \in EventsOf(r, k) : trace[i].kind = "raise"}

\* The resolvers of run r are through with row k.
Processed(r, k) ==
    \/ r < run
    \/ r = run /\ k < idx /\ \A j \in DOMAIN users : users[j].n # k

\* Row k is an entry of the project resolver: every row of as_gitlab_projects,
\* the rows get_value yielded a user for in as_existing_gitlab_projects.
Entered(r, k) ==
    \/ ProjectResolver = "as_gitlab_projects"
    \/ /\ ProjectResolver = "as_existing_gitlab_projects"
       /\ \E i \in EventsOf(r, k) : trace[i].kind = "call" /\ trace[i].op = "users.list"
       /\ \A i \in Warnings(r, k) : trace[i].data.msg # "User not found."

PathOf(k) == format(project_template, entries[k])
Expands(k, path) == PathOf(k).ok /\ PathOf(k).value = path
Missing(k) == PathOf(k).ok /\ PathOf(k).value \notin glb.projects

\* The entries of run r before row k with the path of row k.
Earlier(r, k) == {j \in 1..(k - 1) : Entered(r, j) /\ Expands(j, PathOf(k).value)}

ResolvedRows(r) ==
    {k \in DOMAIN entries : ProjectResolver # None /\ Processed(r, k) /\ Entered(r, k)}

LookupsOf(r, path) ==
    {i \in DOMAIN trace : /\ trace[i].run = r /\ trace[i].kind = "call"
                          /\ trace[i].op = "projects.get" /\ trace[i].project = path}
RowsOf(r, path) == {k \in ResolvedRows(r) : Expands(k, path)}
Complete(r) == r < run \/ pc = "done"

\* C7 as stated: at most one lookup of a path when duplicates are suppressed,
\* exactly one per distinct path when they are allowed.
C7_Original ==
    \A r \in 1..run : \A path \in Paths :
       IF ~args.allow_duplicates
       THEN Cardinality(LookupsOf(r, path)) <= 1
       ELSE (Complete(r) /\ RowsOf(r, path) # {}) => Cardinality(LookupsOf(r, path)) = 1

\* C7: as_gitlab_projects looks a path that has a project up once, for either
\* allow_duplicates, and a path that has none once per row;
\* as_existing_gitlab_projects looks a path up once when duplicates are
\* suppressed and once per entry when they are allowed.
C7_Lookups ==
    \A r \in 1..run : \A path \in Paths :
       ProjectResolver # None =>
          LET once == IF RowsOf(r, path) = {} THEN 0 ELSE 1
              per_row == Cardinality(RowsOf(r, path))
          IN  Cardinality(LookupsOf(r, path)) =
                 IF ProjectResolver = "as_gitlab_projects"
                 THEN IF path \in glb.projects THEN once ELSE per_row
                 ELSE IF ~args.allow_duplicates THEN once ELSE per_row

\* Two rows of one user whose project exists, duplicates allowed:
\* as_existing_gitlab_projects yields both and has looked the path up twice.
C7_Witness ==
    /\ cmd = "as_existing_gitlab_projects" /\ args.allow_duplicates
    /\ pc = "done" /\ Len(entries) = 2
    /\ PathOf(1).ok /\ PathOf(1) = PathOf(2) /\ PathOf(1).value \in glb.projects
    /\ Yields(1, 1) # {} /\ Yields(1, 2) # {}
    /\ Cardinality(LookupsOf(1, PathOf(1).value)) = 2

\* Every row the resolvers are through with, whatever became of it.
ProcessedRows(r) == {k \in DOMAIN entries : Processed(r, k)}

\* C8 as stated: every row is emitted once or reported by a diagnostic.
C8_Original ==
    \A r \in 1..run : \A k \in ProcessedRows(r) :
       /\ Cardinality(Yields(r, k)) <= 1
       /\ Yields(r, k) # {} \/ Warnings(r, k) # {}

\* A row dropped by duplicate suppression: as_gitlab_projects has the project
\* of an earlier row with the path, as_existing_gitlab_projects has seen the
\* path and allow_duplicates is False.
Suppressed(r, k) ==
    /\ ProjectResolver # None /\ Entered(r, k) /\ ~args.allow_duplicates
    /\ Earlier(r, k) # {}
    /\ ProjectResolver = "as_gitlab_projects" => PathOf(k).value \in glb.projects

\* C8: every row is emitted at most once. A row the resolvers are through with
\* is emitted or reported by exactly one diagnostic, unless duplicate
\* suppression dropped it, which leaves neither a pair nor a diagnostic. A row
\* the resolvers are not through with, as are the rows from a KeyError of the
\* template on, has neither.
C8_TerminalStatus ==
    \A r \in 1..run : \A k \in DOMAIN entries :
       /\ Cardinality(Yields(r, k)) <= 1
       /\ IF ~Processed(r, k) \/ Suppressed(r, k)
          THEN Yields(r, k) = {} /\ Warnings(r, k) = {}
          ELSE Yields(r, k) # {} \/ Cardinality(Warnings(r, k)) = 1

\* Two rows of one existing path under as_gitlab_projects with duplicates
\* suppressed: the first is emitted, the second leaves nothing.
C8_Witness ==
    /\ cmd = "as_gitlab_projects" /\ ~args.allow_duplicates
    /\ pc = "done" /\ Len(entries) = 2
    /\ Suppressed(1, 2)
    /\ Cardinality(Yields(1, 1)) = 1
    /\ EventsOf(1, 2) = {}

\* The events of the resolvers: yields, warnings, account and project lookups.
ResolverEvent(e) ==
    \/ e.kind = "yield"
    \/ e.kind = "log" /\ e.op = "warning"
    \/ e.kind = "call" /\ e.op \in {"projects.get", "users.list"}

ResolverEvents(r, k) == {i \in EventsOf(r, k) : ResolverEvent(trace[i])}

\* C9: pairs, diagnostics and lookups come in the order of the input rows, a
\* pair carries the row it was made from, and under duplicate suppression the
\* one pair of a path carries the first row that expands to it.
C9_InputOrder ==
    /\ \A r \in 1..run : \A k \in DOMAIN entries : \A l \in DOMAIN entries :
          k < l => \A i \in ResolverEvents(r, k) : \A j \in ResolverEvents(r, l) : i < j
    /\ \A i \in DOMAIN trace :
          trace[i].kind = "yield" =>
             /\ trace[i].row \in DOMAIN entries
             /\ trace[i].data = entries[trace[i].row]
             /\ (ProjectResolver # None /\ ~args.allow_duplicates) =>
                   \A k \in 1..(trace[i].row - 1) : ~Expands(k, trace[i].project)

\* Two rows of different paths, both projects there, duplicates suppressed:
\* the pair of row 1 comes before the pair of row 2.
C9_Witness ==
    /\ ProjectResolver # None /\ ~args.allow_duplicates
    /\ pc = "done" /\ run = 1 /\ Len(entries) = 2
    /\ PathOf(1).ok /\ PathOf(2).ok /\ PathOf(1) # PathOf(2)
    /\ Yields(1, 1) # {} /\ Yields(1, 2) # {}
    /\ \A i \in Yields(1, 1) : \A j \in Yields(1, 2) : i < j

\* C10: in every batch command the remote calls and the reports of a run are
\* issued row after row: none of them follows, within its run, a remote call
\* or a report of a later row.
C10_Sequential ==
    \A j \in 2..Len(trace) :
       trace[j - 1].run = trace[j].run => trace[j - 1].row <= trace[j].row

\* add-member over two rows: the membership of row 1 is written before the
\* account of row 2 is looked up.
C10_Witness ==
    /\ cmd = "add-member" /\ run = 1
    /\ \E i \in DOMAIN trace : \E j \in DOMAIN trace :
          /\ i < j
          /\ trace[i].row = 1 /\ trace[i].kind = "call"
          /\ trace[i].op \in {"members.create", "members.save"}
          /\ trace[j].row = 2 /\ trace[j].kind = "call" /\ trace[j].op = "users.list"

\* ------------------------------------------------------ template expansion
\* C11: a template naming a column the entry does not have fails for that
\* row only: nothing is raised out of the command, the row is reported by a
\* diagnostic and yields no pair, and the run goes on to the later rows.
C11_RowScoped ==
    /\ pc # "crashed"
    /\ \A r \in 1..run : \A k \in DOMAIN entries :
          (ProjectResolver # None /\ ~PathOf(k).ok) =>
             /\ Raises(r, k) = {}
             /\ Processed(r, k) => (Yields(r, k) = {} /\ Warnings(r, k) # {})

\* The KeyError of str.format has left as_gitlab_projects at row 1 and the
\* command with it, before row 2 was read.
C11_Witness ==
    /\ cmd = "protect" /\ pc = "crashed" /\ Len(entries) = 2
    /\ ~PathOf(1).ok /\ PathOf(2).ok
    /\ \E i \in Raises(1, 1) : trace[i].op = "KeyError"
    /\ EventsOf(1, 2) = {}

\* ==================================================== put-file, create-tag
\* --to 'task.md', --from '{login}.txt', --ref 'main'
to_file_template == << [kind |-> "lit", text |-> "task.md"] >>
from_file_template ==
    << [kind |-> "col", text |-> "login"], [kind |-> "lit", text |-> ".txt"] >>
ref_name_template == << [kind |-> "lit", text |-> "main"] >>

\* --message: the default of put-file, 'Updating {GL[target_filename]}', and
\* messages naming a column next to a synthetic value.
put_file_default_message ==
    << [kind |-> "lit", text |-> "Updating "], [kind |-> "GL", text |-> "target_filename"] >>
put_file_login_message ==
    << [kind |-> "col", text |-> "login"], [kind |-> "lit", text |-> ": "],
       [kind |-> "GL", text |-> "target_filename"] >>
create_tag_login_message ==
    << [kind |-> "GL", text |-> "tag"], [kind |-> "lit", text |-> " for "],
       [kind |-> "col", text |-> "login"] >>

\* template.format(GL=extras, **entry): a call with the keyword GL given twice
\* is a TypeError; {GL[key]} is extras[key], {column} is the entry's value.
format_GL(template, extras, entry) ==
    IF "GL" \in DOMAIN entry
    THEN [exc |-> "TypeError", value |-> <<>>]
    ELSE IF \E i \in DOMAIN template :
               \/ template[i].kind = "col" /\ template[i].text \notin DOMAIN entry
               \/ template[i].kind = "GL" /\ template[i].text \notin DOMAIN extras
         THEN [exc |-> "KeyError", value |-> <<>>]
         ELSE [exc |-> None,
               value |-> [i \in DOMAIN template |->
                             CASE template[i].kind = "lit" -> template[i].text
                               [] template[i].kind = "col" -> entry[template[i].text]
                               [] template[i].kind = "GL" -> extras[template[i].text]]]

\* str and bytes: 'x' != b'x' in Python, so the two are kept apart.
Text(v) == [type |-> "str", v |-> v]
\* from_file_content.encode('utf-8')
encode(text) == [type |-> "bytes", v |-> text.v]

\* pathlib.Path(from_file).read_text(): FileNotFoundError when there is none.
read_text(fs, path) ==
    IF path \in DOMAIN fs
    THEN [ok |-> TRUE, value |-> fs[path]]
    ELSE [ok |-> FALSE, value |-> None]

\* Mutant: a missing file is skipped whether or not the switch is given.
skips_missing_file_always(skip_missing_file) == TRUE

\* `except FileNotFoundError: if skip_missing_file: ... continue / else: raise`
skips_missing_file(skip_missing_file) == skip_missing_file

\* mg.get_file_contents(glb, project, branch, to_file): the bytes of the file
\* in the repository, None when it is not there.
NoContent == [type |-> "NoneType", v |-> None]
get_file_contents(g, project, branch, file_path) ==
    IF <<project, branch, file_path>> \in DOMAIN g.repository_files
    THEN g.repository_files[<<project, branch, file_path>>].content
    ELSE NoContent

\* mg.put_file(glb, project, branch, file_path, content, overwrite, message):
\* commits the content; an existing file is replaced only with overwrite.
put_file(g, project, branch, file_path, content, overwrite, commit_message) ==
    IF <<project, branch, file_path>> \in DOMAIN g.repository_files /\ ~overwrite
    THEN g
    ELSE [g EXCEPT !.repository_files =
             Put(@, <<project, branch, file_path>>,
                 [content |-> encode(content), message |-> commit_message])]

\* http.HTTPStatus.BAD_REQUEST
BAD_REQUEST == 400

\* No GitlabCreateError: the tag was created.
NoError == [response_code |-> 201, error_message |-> <<>>]

\* mg.create_tag(glb, project, params): GitlabCreateError 400 "... already
\* exists" when the project has the tag.  An error is its response code and
\* its message, a text written as its pieces.
create_tag(g, project, params) ==
    IF <<project, params.tag_name>> \in DOMAIN g.tags
    THEN [ok |-> FALSE, glb |-> g,
          exp |-> [response_code |-> BAD_REQUEST,
                   error_message |-> <<"Tag ", params.tag_name, " already exists">>]]
    ELSE [ok |-> TRUE, exp |-> NoError,
          glb |-> [g EXCEPT !.tags = Put(@, <<project, params.tag_name>>, params)]]

\* The other answers a tag creation may fail with: an invalid ref, a
\* protected tag name, a conflict, a message that has the words elsewhere.
OtherCreateErrors ==
    {[response_code |-> BAD_REQUEST, error_message |-> <<"Target ", "main", " is invalid">>],
     [response_code |-> 403, error_message |-> <<"403 Forbidden">>],
     [response_code |-> 409, error_message |-> <<"Tag ", "v1", " already exists">>],
     [response_code |-> BAD_REQUEST, error_message |-> <<" already exists", ": ", "v1">>]}

\* str.endswith for a suffix that is a whole piece of the text.
endswith(text, suffix) == Len(text) > 0 /\ text[Len(text)] = suffix

\* Mutant: every bad request is taken for an existing tag.
is_already_exists_any_bad_request(exp) == exp.response_code = BAD_REQUEST

\* `(exp.response_code == http.HTTPStatus.BAD_REQUEST) and
\*  exp.error_message.endswith("already exists")`
is_already_exists(exp) ==
    exp.response_code = BAD_REQUEST /\ endswith(exp.error_message, " already exists")

\* A handler ends its iteration over the pair at the head of pairs.
NextPair(events, row) ==
    /\ trace' = trace \o Tag(events, row)
    /\ pairs' = Tail(pairs)
    /\ pc' = pc

\* An exception no handler catches: the traceback ends the process.
Uncaught(events, exc, row) ==
    /\ trace' = trace \o Tag(events \o <<Raise(exc)>>, row)
    /\ pairs' = Tail(pairs)
    /\ pc' = "crashed"

\* action_put_file before its loop: --force-commit with --once is refused.
action_put_file_enter ==
    /\ pc = "called" /\ cmd = "put-file"
    /\ IF args.only_once /\ args.force_commit
       THEN /\ trace' = trace \o Tag(<<Log("error", "--force-commit and --once together.",
                                           <<>>, "")>>, 0)
            /\ pc' = "done"
       ELSE /\ pc' = "running"
            /\ UNCHANGED trace
    /\ UNCHANGED << cmd, args, entries, glb, run, idx, users, pairs, projects_by_path,
                    processed_projects, argv, parsed_options, files, result >>

\* Mutant: the upload may overwrite also with --once.
put_file_overwrite_always(only_once) == TRUE

\* `not only_once`, the overwrite argument of mg.put_file.
put_file_overwrite(only_once) == ~only_once

\* Mutant: every row is committed, whatever the repository has.
put_file_commit_always(force_commit, already_exists, current_content, from_file_content) == TRUE

\* commit_needed of action_put_file: forced, or the file is not in the
\* repository, or its bytes there differ from the encoded local text.
put_file_commit_needed(force_commit, already_exists, current_content, from_file_content) ==
    IF force_commit THEN TRUE
    ELSE IF already_exists THEN current_content # encode(from_file_content)
         ELSE TRUE

\* The upload of action_put_file for a row whose local file was read.
put_file_upload(pair, to_file, commit_message, from_file, from_file_content, failed) ==
    LET current_content == get_file_contents(glb, pair.project, args.branch, to_file)
        get == IF args.force_commit THEN <<>>
               ELSE <<Call("files.get", pair.project, to_file, args.branch, TRUE)>>
        already_exists == (~args.force_commit) /\ current_content # NoContent
        commit_needed == put_file_commit_needed(args.force_commit, already_exists,
                                                current_content, from_file_content)
        overwrite == put_file_overwrite(args.only_once)
        put(ok) == Call("files.put", pair.project, to_file,
                        [content |-> from_file_content, overwrite |-> overwrite,
                         message |-> commit_message, branch |-> args.branch], ok)
    IN  IF ~commit_needed
        THEN /\ NextPair(get \o <<Log("info", "No change", pair.project, from_file)>>,
                         pair.row)
             /\ UNCHANGED glb
        ELSE LET info == IF already_exists /\ args.only_once
                         THEN Log("info", "Not overwriting", pair.project, from_file)
                         ELSE Log("info", "Uploading", pair.project, from_file)
             IN  IF args.dry_run
                 THEN NextPair(get \o <<info>>, pair.row) /\ UNCHANGED glb
                 ELSE IF failed
                      THEN /\ Uncaught(get \o <<info, put(FALSE)>>, "GitlabCreateError",
                                       pair.row)
                           /\ UNCHANGED glb
                      ELSE /\ NextPair(get \o <<info, put(TRUE)>>, pair.row)
                           /\ glb' = put_file(glb, pair.project, args.branch, to_file,
                                              from_file_content, overwrite, commit_message)

\* action_put_file, one iteration of its for loop.
action_put_file ==
    /\ pc = "running" /\ cmd = "put-file" /\ pairs # <<>>
    /\ LET pair == Head(pairs)
           entry == pair.entry
           to_file == format(args.to_file_template, entry)
           extras == [target_filename |-> to_file.value]
           commit_message == format_GL(args.commit_message_template, extras, entry)
           from_file == format(args.from_file_template, entry)
           from_file_content == read_text(files, from_file.value)
       IN  IF ~to_file.ok
           THEN Uncaught(<<>>, "KeyError", pair.row) /\ UNCHANGED glb
           ELSE IF commit_message.exc # None
           THEN Uncaught(<<>>, commit_message.exc, pair.row) /\ UNCHANGED glb
           ELSE IF ~from_file.ok
           THEN Uncaught(<<>>, "KeyError", pair.row) /\ UNCHANGED glb
           ELSE IF ~from_file_content.ok
           THEN IF skips_missing_file(args.skip_missing_file)
                THEN /\ NextPair(<<Log("error", "Skipping", pair.project, from_file.value)>>,
                                 pair.row)
                     /\ UNCHANGED glb
                ELSE Uncaught(<<>>, "FileNotFoundError", pair.row) /\ UNCHANGED glb
           ELSE \E failed \in BOOLEAN :
                   put_file_upload(pair, to_file.value, commit_message.value,
                                   from_file.value, from_file_content.value, failed)
    /\ UNCHANGED << cmd, args, entries, run, idx, users, projects_by_path,
                    processed_projects, argv, parsed_options, files, result >>

\* action_create_tag, one iteration of its for loop.  Without --message the
\* template is None, here the empty template: `if commit_message_template`.
action_create_tag ==
    /\ pc = "running" /\ cmd = "create-tag" /\ pairs # <<>>
    /\ LET pair == Head(pairs)
           entry == pair.entry
           ref_name == format(args.ref_name_template, entry)
           extras == [tag |-> args.tag_name]
           message == IF args.commit_message_template # <<>>
                      THEN format_GL(args.commit_message_template, extras, entry)
                      ELSE [exc |-> None, value |-> None]
           params == IF args.commit_message_template # <<>>
                     THEN [tag_name |-> args.tag_name, ref |-> ref_name.value,
                           message |-> message.value]
                     ELSE [tag_name |-> args.tag_name, ref |-> ref_name.value]
           info == Log("info", "Creating tag", pair.project, args.tag_name)
           created == create_tag(glb, pair.project, params)
           create(ok) == Call("tags.create", pair.project, args.tag_name, params, ok)
       IN  IF ~ref_name.ok
           THEN Uncaught(<<>>, "KeyError", pair.row) /\ UNCHANGED glb
           ELSE IF message.exc # None
           THEN Uncaught(<<>>, message.exc, pair.row) /\ UNCHANGED glb
           ELSE \E exp \in {created.exp} \cup OtherCreateErrors :
                   LET except == Event("except", "GitlabCreateError", pair.project,
                                       args.tag_name, exp, FALSE)
                   IN  IF exp = NoError
                       THEN /\ NextPair(<<info, create(TRUE)>>, pair.row)
                            /\ glb' = created.glb
                       ELSE IF is_already_exists(exp)
                       THEN \* `pass`
                            /\ NextPair(<<info, create(FALSE), except>>, pair.row)
                            /\ UNCHANGED glb
                       ELSE \* `raise`
                            /\ Uncaught(<<info, create(FALSE), except>>,
                                        "GitlabCreateError", pair.row)
                            /\ UNCHANGED glb
    /\ UNCHANGED << cmd, args, entries, run, idx, users, projects_by_path,
                    processed_projects, argv, parsed_options, files, result >>

\* ----------------------------------------------- put-file, create-tag: Init
\* Rows of the file commands: a login, and for alice also a column named GL.
FileRows == {[login |-> l] : l \in Logins} \cup {[login |-> "alice", GL |-> "x"]}
FileEntryLists == UNION {[1..n -> FileRows] : n \in 0..MaxRows}

\* The local files: none, alice.txt alone, alice.txt and bob.txt.
LocalFiles ==
    {[p \in {format(from_file_template, [login |-> l]).value : l \in S} |-> Text("new")] :
        S \in UserSets}

\* The switches of put-file, in every combination.
PutFileSwitches == [force_commit : BOOLEAN, only_once : BOOLEAN, dry_run : BOOLEAN]

PutFileArgs ==
    {[to_file_template |-> to_file_template, from_file_template |-> from_file_template,
      branch |-> "master", commit_message_template |-> m,
      force_commit |-> sw.force_commit, only_once |-> sw.only_once,
      dry_run |-> sw.dry_run, skip_missing_file |-> k, allow_duplicates |-> FALSE] :
        m \in {put_file_default_message, put_file_login_message},
        sw \in PutFileSwitches, k \in BOOLEAN}

CreateTagArgs ==
    {[tag_name |-> "v1", ref_name_template |-> ref_name_template,
      commit_message_template |-> m, allow_duplicates |-> FALSE] :
        m \in {<<>>, create_tag_login_message}}

\* The file in alice's repository: not there, as the local one, or different.
RepositoryFiles(projects) ==
    {EmptyFn} \cup
    {Put(EmptyFn, <<p, "master", format(to_file_template, EmptyFn).value>>,
         [content |-> encode(Text(c)), message |-> <<>>]) :
        p \in projects \cap {<<"student/", "alice">>}, c \in {"old", "new"}}

\* The tag in alice's repository: there or not.
RepositoryTags(projects) ==
    {EmptyFn} \cup
    {Put(EmptyFn, <<p, "v1">>, [tag_name |-> "v1", ref |-> <<"main">>]) :
        p \in projects \cap {<<"student/", "alice">>}}

InitFiles ==
    /\ cmd \in FileCommands
    /\ entries \in FileEntryLists
    /\ \E projects \in ProjectSets :
          \/ /\ cmd = "put-file"
             /\ args \in PutFileArgs
             /\ files \in LocalFiles
             /\ \E f \in RepositoryFiles(projects) :
                   glb = [EmptyGitlab EXCEPT !.projects = projects, !.repository_files = f]
             /\ pc = "called"
          \/ /\ cmd = "create-tag"
             /\ args \in CreateTagArgs
             /\ files = EmptyFn
             /\ \E t \in RepositoryTags(projects) :
                   glb = [EmptyGitlab EXCEPT !.projects = projects, !.tags = t]
             /\ pc = "running"
    /\ run = 1
    /\ idx = 1
    /\ users = <<>>
    /\ pairs = <<>>
    /\ projects_by_path = EmptyFn
    /\ processed_projects = {}
    /\ trace = <<>>
    /\ result = EmptyFn
    /\ argv = <<>>
    /\ parsed_options = None

NextFiles ==
    \/ as_gitlab_projects
    \/ action_put_file_enter
    \/ action_put_file
    \/ action_create_tag
    \/ Return
    \/ Rerun

SpecFiles == InitFiles /\ [][NextFiles]_vars

\* The commit message of row k spelled out: a literal, the entry's own value
\* of a column, or the synthetic value of the command.
ExpectedMessage(template, k, synthetic) ==
    [j \in DOMAIN template |->
        CASE template[j].kind = "lit" -> template[j].text
          [] template[j].kind = "col" -> entries[k][template[j].text]
          [] template[j].kind = "GL" -> synthetic]

\* C12: the synthetic values never collide with the columns of an entry: for
\* every entry the expansion of the commit message raises nothing, and the
\* message sent has the entry's own value for each column and the synthetic
\* value (target file name, tag name) for each GL placeholder.
C12_NoCollision ==
    \A i \in DOMAIN trace :
       /\ trace[i].kind = "raise" => trace[i].op \notin {"TypeError", "KeyError"}
       /\ (trace[i].kind = "call" /\ trace[i].op = "files.put") =>
             trace[i].data.message =
                ExpectedMessage(args.commit_message_template, trace[i].row,
                                format(args.to_file_template, entries[trace[i].row]).value)
       /\ (trace[i].kind = "call" /\ trace[i].op = "tags.create"
             /\ args.commit_message_template # <<>>) =>
             trace[i].data.message =
                ExpectedMessage(args.commit_message_template, trace[i].row, args.tag_name)

\* put-file has come to a row with a column named GL, whose project exists and
\* whose local file is there, and has ended in a TypeError without an upload.
C12_Witness ==
    /\ cmd = "put-file" /\ pc = "crashed"
    /\ \E k \in DOMAIN entries :
          /\ "GL" \in DOMAIN entries[k]
          /\ PathOf(k).value \in glb.projects
          /\ format(args.from_file_template, entries[k]).value \in DOMAIN files
          /\ \E i \in Raises(1, k) : trace[i].op = "TypeError"
          /\ \A i \in EventsOf(1, k) : trace[i].op # "files.put"

\* ================================================ accounts --show-summary
\* `if u` of the summary and `if not user_obj` of get_value.
user_is_truthy(user_obj) == ~user_is_falsy(user_obj)

\* `users = list(entries.as_gitlab_users(glb, login_column))`: the next pair
\* goes to the list.
action_accounts_list ==
    /\ pc = "running" /\ cmd = "accounts --show-summary" /\ pairs # <<>>
    /\ users' = users \o <<Head(pairs)>>
    /\ pairs' = Tail(pairs)
    /\ UNCHANGED << cmd, args, entries, glb, run, pc, idx, projects_by_path,
                    processed_projects, trace, argv, parsed_options, files, result >>

\* 'Total: {}, Not-found: {}, Ok: {}'.format(entries_total,
\*     entries_total - users_found, users_found)
summary(collected) ==
    LET entries_total == Len(collected)
        users_found ==
            Cardinality({i \in DOMAIN collected : user_is_truthy(collected[i].user)})
    IN  [total |-> entries_total, not_found |-> entries_total - users_found,
         ok |-> users_found]

\* action_accounts after list(...) has exhausted the generator.
action_accounts_summary ==
    /\ pc = "running" /\ cmd = "accounts --show-summary"
    /\ idx > Len(entries) /\ pairs = <<>>
    /\ trace' = trace \o
          Tag(<<Event("print", "summary", <<>>, "", summary(users), TRUE)>>,
              Len(entries) + 1)
    /\ pc' = "done"
    /\ UNCHANGED << cmd, args, entries, glb, run, idx, users, pairs, projects_by_path,
                    processed_projects, argv, parsed_options, files, result >>

\* The account resolvers: as_gitlab_users under accounts --show-summary, and
\* UserListParameter.get_value with and without has_to_be_gitlab_users.
InitAccounts ==
    /\ cmd \in {"accounts --show-summary", "as_existing_gitlab_projects"}
    /\ \E m \in BOOLEAN, d \in BOOLEAN :
          /\ cmd = "accounts --show-summary" => (~m /\ ~d)
          /\ args = [DefaultArgs EXCEPT !.mock_users = m, !.allow_duplicates = d]
    /\ entries \in EntryLists
    /\ \E projects \in ProjectSets : \E logins \in UserSets :
          /\ cmd = "accounts --show-summary" => projects = {}
          /\ glb = [EmptyGitlab EXCEPT !.projects = projects, !.users = logins]
    /\ run = 1
    /\ pc = "running"
    /\ idx = 1
    /\ users = <<>>
    /\ pairs = <<>>
    /\ projects_by_path = EmptyFn
    /\ processed_projects = {}
    /\ trace = <<>>
    /\ result = EmptyFn
    /\ argv = <<>>
    /\ parsed_options = None
    /\ files = EmptyFn

NextAccounts ==
    \/ as_gitlab_users
    \/ action_accounts_list
    \/ action_accounts_summary
    \/ UserListParameter_get_value
    \/ as_existing_gitlab_projects
    \/ Consume
    \/ Return

SpecAccounts == InitAccounts /\ [][NextAccounts]_vars

\* The login of row k and whether an account has it.
LoginOf(k) == entry_get(entries[k], login_column)
NoAccount(k) == LoginOf(k) # None /\ LoginOf(k) \notin glb.users
NewWarnings(msg) ==
    {i \in DOMAIN NewEvents :
        /\ NewEvents[i].kind = "log" /\ NewEvents[i].op = "warning"
        /\ NewEvents[i].data.msg = msg}

\* as_gitlab_users at a row whose login has no account: the pair of the entry
\* and None, and one diagnostic.
C13_AccountsStep ==
    (cmd = "accounts --show-summary" /\ idx' = idx + 1 /\ NoAccount(idx)) =>
       /\ Len(pairs') = Len(pairs) + 1
       /\ pairs'[Len(pairs')].entry = entries[idx]
       /\ pairs'[Len(pairs')].user = NoUser
       /\ Cardinality(NewWarnings("User not found.")) = 1

\* get_value with mock users at such a row: a placeholder with the requested
\* login and the is_mock marker.
C13_MockStep ==
    (cmd = "as_existing_gitlab_projects" /\ idx' = idx + 1 /\ NoAccount(idx)
       /\ args.mock_users) =>
       /\ Len(users') = Len(users) + 1
       /\ users'[Len(users')].username = LoginOf(idx)
       /\ users'[Len(users')].is_mock
       /\ users'[Len(users')].row = entries[idx]

\* The summary: Total is the number of rows, Not-found the number of rows
\* without an account, and Total = Not-found + Ok.
C13_SummaryStep ==
    (cmd = "accounts --show-summary" /\ pc = "running" /\ pc' = "done") =>
       LET printed == NewEvents[1].data
       IN  /\ printed.total = Len(entries)
           /\ printed.not_found =
                 Cardinality({k \in DOMAIN entries : LoginOf(k) \notin glb.users})
           /\ printed.total = printed.not_found + printed.ok

\* C13 as stated: without mock users the row yields an explicit absence and a
\* diagnostic, in get_value as in as_gitlab_users.
C13_Original ==
    [][/\ C13_AccountsStep
       /\ C13_MockStep
       /\ C13_SummaryStep
       /\ (cmd = "as_existing_gitlab_projects" /\ idx' = idx + 1 /\ NoAccount(idx)
             /\ ~args.mock_users) =>
             /\ Len(users') = Len(users) + 1
             /\ users'[Len(users')].username = None
             /\ Cardinality(NewWarnings("User not found.")) = 1]_vars

\* C13: a login without an account gives, in as_gitlab_users, the pair
\* (entry, None) and a diagnostic; in UserListParameter.get_value with mock
\* users a placeholder carrying the login and the is_mock marker; in get_value
\* without mock users a diagnostic and no item at all.  The accounts summary
\* counts every such row as not found: Total = Not-found + Ok = number of rows.
C13_NotFound ==
    [][/\ C13_AccountsStep
       /\ C13_MockStep
       /\ C13_SummaryStep
       /\ (cmd = "as_existing_gitlab_projects" /\ idx' = idx + 1 /\ NoAccount(idx)
             /\ ~args.mock_users) =>
             /\ users' = users
             /\ pairs' = pairs
             /\ Cardinality(NewWarnings("User not found.")) = 1]_vars

\* get_value without mock users is through with two rows of unknown logins: two
\* diagnostics, nothing yielded.
C13_Witness ==
    /\ cmd = "as_existing_gitlab_projects" /\ ~args.mock_users
    /\ pc = "done" /\ Len(entries) = 2
    /\ NoAccount(1) /\ NoAccount(2)
    /\ Cardinality(Warnings(1, 1)) = 1 /\ Cardinality(Warnings(1, 2)) = 1
    /\ Yields(1, 1) = {} /\ Yields(1, 2) = {}

\* ==================================================== access-level options
\* str.upper, letter by letter.
ToUpper ==
    [c \in {"a", "c", "d", "e", "i", "l", "m", "n", "o", "p", "r", "s", "t", "v"} |->
        CASE c = "a" -> "A" [] c = "c" -> "C" [] c = "d" -> "D" [] c = "e" -> "E"
          [] c = "i" -> "I" [] c = "l" -> "L" [] c = "m" -> "M" [] c = "n" -> "N"
          [] c = "o" -> "O" [] c = "p" -> "P" [] c = "r" -> "R" [] c = "s" -> "S"
          [] c = "t" -> "T" [] c = "v" -> "V"]

\* Mutant: the text is left as typed.
str_asis(text) == text

\* `type=str.upper`
str_upper(text) ==
    [i \in DOMAIN text |-> IF text[i] \in DOMAIN ToUpper THEN ToUpper[text[i]] ELSE text[i]]

\* `choices=[level.name for level in list(gitlab.const.AccessLevel)]`
choices == {Spelling(l.name) : l \in AccessLevel}

\* Mutant: the value is not checked against the choices.
argparse_get_values_unchecked(arg_string) ==
    [ok |-> TRUE, value |-> Str(str_upper(arg_string))]

\* argparse on the value of an access-level option: the type conversion, then
\* the check against the choices (error: invalid choice).
argparse_get_values(arg_string) ==
    LET value == str_upper(arg_string)
    IN  IF value \in choices
        THEN [ok |-> TRUE, value |-> Str(value)]
        ELSE [ok |-> FALSE, value |-> None]

\* argparse stores the option: a str goes through type and choices, a default
\* or a const that is no str is stored as it is.
AccessLevelActionParameter_parse ==
    /\ cmd = "access-level" /\ pc = "start"
    /\ IF argv.type = "str"
       THEN LET r == argparse_get_values(argv.v)
            IN  IF r.ok THEN parsed_options' = r.value /\ pc' = "parsed"
                ELSE parsed_options' = parsed_options /\ pc' = "exit"
       ELSE parsed_options' = argv /\ pc' = "parsed"
    /\ UNCHANGED << cmd, args, entries, glb, run, idx, users, pairs, projects_by_path,
                    processed_projects, trace, argv, files, result >>

\* AccessLevelActionParameter.get_value
AccessLevelActionParameter_get_value ==
    /\ cmd = "access-level" /\ pc = "parsed"
    /\ args' = [level |-> gitlab_get_access_level(parsed_options)]
    /\ pc' = "done"
    /\ UNCHANGED << cmd, entries, glb, run, idx, users, pairs, projects_by_path,
                    processed_projects, trace, argv, parsed_options, files, result >>

InitLevels ==
    /\ cmd = "access-level"
    /\ LET Lower(ch) == IF \E c \in DOMAIN ToUpper : ToUpper[c] = ch
                        THEN CHOOSE c \in DOMAIN ToUpper : ToUpper[c] = ch
                        ELSE ch
           \* the name with the letters at the positions U in lower case
           Casing(name, U) ==
               [i \in DOMAIN Spelling(name) |->
                   IF i \in U THEN Lower(Spelling(name)[i]) ELSE Spelling(name)[i]]
       IN  \* a name typed on the command line in any letter case
           \/ \E l \in AccessLevel : \E U \in SUBSET DOMAIN Spelling(l.name) :
                 argv = Str(Casing(l.name, U))
           \* a member given as default or by a compatibility switch
           \/ \E l \in AccessLevel : argv = Enum(l)
           \* the integer of a member
           \/ \E l \in AccessLevel : argv = Int_(l.value)
    /\ args = EmptyFn
    /\ entries = <<>>
    /\ glb = EmptyGitlab
    /\ run = 1
    /\ pc = "start"
    /\ idx = 1
    /\ users = <<>>
    /\ pairs = <<>>
    /\ projects_by_path = EmptyFn
    /\ processed_projects = {}
    /\ trace = <<>>
    /\ result = EmptyFn
    /\ parsed_options = None
    /\ files = EmptyFn

NextLevels ==
    \/ AccessLevelActionParameter_parse
    \/ AccessLevelActionParameter_get_value

SpecLevels == InitLevels /\ [][NextLevels]_vars

\* The member an input stands for, read off the input itself: the member
\* whose name is the text with the case ignored, the member, the member of the
\* integer.
Meant(input) ==
    LET Same(ch, up) == ch = up \/ (ch \in DOMAIN ToUpper /\ ToUpper[ch] = up)
    IN  CASE input.type = "str" ->
                CHOOSE l \in AccessLevel :
                   /\ Len(Spelling(l.name)) = Len(input.v)
                   /\ \A i \in DOMAIN input.v : Same(input.v[i], Spelling(l.name)[i])
          [] input.type = "AccessLevel" -> input.v
          [] input.type = "int" -> CHOOSE l \in AccessLevel : l.value = input.v

\* C16: the canonical name of a level in any letter case parses to that
\* level, whose name is the canonical name again; a level, or the integer of
\* a level, resolves to the same level.
C16_RoundTrip ==
    /\ pc # "exit"
    /\ pc = "done" =>
          /\ args.level \in AccessLevel
          /\ args.level = Meant(argv)
          /\ argv.type = "str" => Spelling(args.level.name) = str_upper(argv.v)
          /\ gitlab_get_access_level(Str(Spelling(args.level.name))) = args.level
          /\ gitlab_get_access_level(Enum(args.level)) = args.level

\* --access-level typed as "mAiNtAiNeR" has resolved to MAINTAINER.
C16_Witness ==
    /\ pc = "done" /\ argv.type = "str"
    /\ argv.v = <<"m", "A", "i", "N", "t", "A", "i", "N", "e", "R">>
    /\ args.level.name = "MAINTAINER" /\ args.level.value = MAINTAINER

\* ------------------------------------------------ put-file: missing files
\* The local source file of row k.
FromFile(k) == format(args.from_file_template, entries[k])
FileMissing(k) == FromFile(k).ok /\ FromFile(k).value \notin DOMAIN files
\* What put-file left in the trace for row k.
FileCalls(k) ==
    {i \in EventsOf(1, k) : trace[i].kind = "call" /\ trace[i].op \in {"files.get", "files.put"}}
Skippings(k) ==
    {i \in EventsOf(1, k) : trace[i].kind = "log" /\ trace[i].data.msg = "Skipping"}
Aborts(k) == {i \in Raises(1, k) : trace[i].op = "FileNotFoundError"}
Handled(k) ==
    \E i \in EventsOf(1, k) :
       \/ trace[i].kind = "raise"
       \/ trace[i].kind = "log" /\ trace[i].op \in {"info", "error"}
       \/ trace[i].kind = "call" /\ trace[i].op # "projects.get"

\* C19: in put-file a missing local file ends the invocation with the rows
\* after it untouched, unless --skip-missing-files is given: then the row gets
\* one error diagnostic and no remote read or upload of the file, and the rows
\* after it are processed.
C19_MissingFile ==
    cmd = "put-file" =>
       \A k \in DOMAIN entries :
          /\ (Skippings(k) # {} \/ Aborts(k) # {}) => FileMissing(k)
          /\ FileMissing(k) => FileCalls(k) = {}
          /\ (FileMissing(k) /\ Handled(k)) =>
                \/ Raises(1, k) # {} /\ Aborts(k) = {}
                \/ IF args.skip_missing_file
                   THEN Cardinality(Skippings(k)) = 1 /\ Raises(1, k) = {}
                   ELSE Aborts(k) # {} /\ Skippings(k) = {}
          /\ Aborts(k) # {} =>
                /\ ~args.skip_missing_file
                /\ pc = "crashed"
                /\ \A i \in DOMAIN trace : trace[i].row <= k
          /\ Skippings(k) # {} =>
                /\ args.skip_missing_file
                /\ \A i \in Skippings(k) : trace[i].op = "error"
                /\ pc = "done" =>
                      \A j \in (k + 1)..Len(entries) : Yields(1, j) # {} => Handled(j)

\* put-file --skip-missing-files over two rows: the file of the first is
\* missing and the row is skipped, the file of the second is uploaded.
C19_Witness ==
    /\ cmd = "put-file" /\ pc = "done" /\ args.skip_missing_file
    /\ Len(entries) = 2
    /\ FileMissing(1) /\ Skippings(1) # {} /\ FileCalls(1) = {}
    /\ \E i \in FileCalls(2) : trace[i].op = "files.put" /\ trace[i].ok

\* put-file without the switch has stopped at the missing file of the first
\* of two rows.
C19_WitnessAbort ==
    /\ cmd = "put-file" /\ pc = "crashed" /\ ~args.skip_missing_file
    /\ Len(entries) = 2 /\ Aborts(1) # {} /\ EventsOf(1, 2) = {}
    /\ PathOf(2).value \in glb.projects /\ ~FileMissing(2)

\* -------------------------------------------------------- no rollback
\* What a remote mutation that succeeded does to the remote state.
Applied(g, e) ==
    LET key == <<e.project, e.key>>
    IN  CASE e.op = "protectedbranches.delete" ->
                [g EXCEPT !.protectedbranches = Drop(@, key)]
          [] e.op = "protectedbranches.create" ->
                [g EXCEPT !.protectedbranches =
                    Put(@, key, ProtectedBranch(e.data.merge_access_level,
                                                e.data.push_access_level))]
          [] e.op = "protectedtags.delete" -> [g EXCEPT !.protectedtags = Drop(@, key)]
          [] e.op = "protectedtags.create" ->
                [g EXCEPT !.protectedtags = Put(@, key, ProtectedTag(e.data.create_access_level))]
          [] e.op = "members.delete" -> [g EXCEPT !.members = Drop(@, key)]
          [] e.op \in {"members.create", "members.save"} ->
                [g EXCEPT !.members = Put(@, key, e.data.access_level)]

Succeeded(e) == Mutating(e) /\ e.ok
RECURSIVE Replayed(_, _)
Replayed(g, calls) ==
    IF calls = <<>> THEN g ELSE Replayed(Applied(g, Head(calls)), Tail(calls))

\* The step deleted a protection and then failed to create it again.
DeletedNotCreated ==
    /\ Len(NewMutations) = 2
    /\ NewMutations[1].op \in {"protectedbranches.delete", "protectedtags.delete"}
    /\ NewMutations[1].ok /\ ~NewMutations[2].ok

C20_Step ==
    cmd \in EntriesCommands \cup UsersCommands =>
       \* the remote state after a step is the state before it with every
       \* mutation that succeeded in the step applied, failed row or not
       /\ glb' = Replayed(glb, SelectSeq(NewEvents, Succeeded))
       /\ DeletedNotCreated =>
             LET e == NewMutations[1]
                 key == <<e.project, e.key>>
             IN  /\ key \in DOMAIN glb.protectedbranches \cup DOMAIN glb.protectedtags
                 /\ key \notin DOMAIN glb'.protectedbranches
                 /\ key \notin DOMAIN glb'.protectedtags
                 /\ \A k \in DOMAIN glb.protectedbranches \ {key} :
                       /\ k \in DOMAIN glb'.protectedbranches
                       /\ glb'.protectedbranches[k] = glb.protectedbranches[k]
                 /\ \A k \in DOMAIN glb.protectedtags \ {key} :
                       /\ k \in DOMAIN glb'.protectedtags
                       /\ glb'.protectedtags[k] = glb.protectedtags[k]
                 /\ pc' = "running"

\* C20: no remote mutation is rolled back: a step leaves in the remote state
\* every mutation that succeeded in it, so the mutations of earlier rows stay
\* when a row fails, and a protection deleted before its create failed stays
\* absent while the loop goes on.
C20_NoRollback == [][C20_Step]_vars

\* protect over two rows: the protection of the first was deleted and its
\* create failed, the branch of the second was protected; at the end the
\* first is unprotected and the second protected.
C20_Witness ==
    /\ cmd = "protect" /\ pc = "done" /\ run = 1 /\ Len(entries) = 2
    /\ \E i, j, h \in DOMAIN trace :
          /\ i < j /\ j < h
          /\ trace[i].row = 1 /\ trace[i].op = "protectedbranches.delete" /\ trace[i].ok
          /\ trace[j].row = 1 /\ trace[j].op = "protectedbranches.create" /\ ~trace[j].ok
          /\ trace[h].row = 2 /\ trace[h].op = "protectedbranches.create" /\ trace[h].ok
          /\ <<trace[i].project, trace[i].key>> \notin DOMAIN glb.protectedbranches
          /\ <<trace[h].project, trace[h].key>> \in DOMAIN glb.protectedbranches

\* ======================================================= main: invocation
\* The commands registered with @register_command that are modelled here.
RegisteredCommands == {"protect", "protect-tag", "add-member", "fork", "get-members"}

\* --to 'forks/{login}'
to_project_template ==
    << [kind |-> "lit", text |-> "forks/"], [kind |-> "col", text |-> "login"] >>

\* callback_func.__annotations__: the parameter descriptors of a command in
\* the order they are declared.  option is the name of the option the
\* descriptor registers ("" for none), action its argparse action.
Parameters(command) ==
    LET P(dest, class, option, action, required, default, compat_flags) ==
            [dest |-> dest, class |-> class, option |-> option, action |-> action,
             required |-> required, default |-> default, compat_flags |-> compat_flags]
        glb_ == P("glb", "GitlabInstanceParameter", "", "", FALSE, None, <<>>)
        logger == P("logger", "LoggerParameter", "", "", FALSE, None, <<>>)
        entries_ == P("entries", "ActionEntriesParameter", "entries", "store", TRUE, None, <<>>)
        users_ == P("users", "UserListParameter", "users", "store", TRUE, None, <<>>)
        dry_run == P("dry_run", "ActionParameter", "dry-run", "store_true", FALSE, FALSE, <<>>)
        Required(dest, option) ==
            P(dest, "ActionParameter", option, "store", TRUE, None, <<>>)
        Switch(dest, option) ==
            P(dest, "ActionParameter", option, "store_true", FALSE, FALSE, <<>>)
        Flag(name, level) == [name |-> name, level |-> Level(level)]
    IN  CASE command = "protect" ->
               << glb_, logger, entries_,
                  Required("project_template", "project"),
                  Required("branch_name", "branch"),
                  P("merge_access_level", "AccessLevelActionParameter", "merge-access-level",
                    "store", FALSE, Enum(Level(MAINTAINER)),
                    <<Flag("developers-can-merge", DEVELOPER)>>),
                  P("push_access_level", "AccessLevelActionParameter", "push-access-level",
                    "store", FALSE, Enum(Level(MAINTAINER)),
                    <<Flag("developers-can-push", DEVELOPER)>>) >>
          [] command = "protect-tag" ->
               << glb_, logger, entries_,
                  Required("project_template", "project"),
                  Required("tag_name", "tag"),
                  P("create_access_level", "AccessLevelActionParameter",
                    "create-access-level", "store", FALSE, Enum(Level(NO_ACCESS)),
                    <<Flag("developers-can-create", DEVELOPER),
                      Flag("maintainers-can-create", MAINTAINER)>>) >>
          [] command = "add-member" ->
               << glb_, logger, users_, dry_run,
                  Required("project_template", "project"),
                  P("access_level", "AccessLevelActionParameter", "access-level",
                    "store", TRUE, None, <<>>) >>
          [] command = "fork" ->
               << glb_, logger, users_,
                  Required("from_project", "from"),
                  Required("to_project_template", "to"),
                  Switch("hide_fork", "hide-fork"),
                  Switch("include_nonexistent", "include-invalid-users") >>
          [] command = "get-members" ->
               << glb_, Required("project", "project"), Switch("inherited", "inherited") >>

\* The option names of a descriptor: its own and its compatibility switches'.
\* UserListParameter also registers --login-column.
OptionNames(param) ==
    ({param.option} \ {""})
    \cup {param.compat_flags[i].name : i \in DOMAIN param.compat_flags}
    \cup (IF param.class = "UserListParameter" THEN {"login-column"} ELSE {})

\* self.args.parse_args(argv): the namespace, or the error that makes
\* argparse print the usage and exit with status 2.
argparse_parse_args(a) ==
    LET params == Parameters(a.command)
        given == DOMAIN a.opts
        known == UNION {OptionNames(params[i]) : i \in DOMAIN params}
                 \cup {"debug", "config-file", "instance"}
        Rejected(msg) == [ok |-> FALSE, error |-> msg, func |-> None, values |-> EmptyFn]
        converted(p) == argparse_get_values(a.opts[p.option])
        flags(p) == {i \in DOMAIN p.compat_flags : p.compat_flags[i].name \in given}
        value(p) ==
            IF p.option \in given
            THEN CASE p.class = "AccessLevelActionParameter" -> converted(p).value
                   [] p.action = "store_true" -> TRUE
                   [] OTHER -> a.opts[p.option]
            ELSE IF flags(p) # {}
                 THEN Enum(p.compat_flags[CHOOSE i \in flags(p) : TRUE].level)
                 ELSE p.default
        registered == {i \in DOMAIN params : params[i].option # ""}
    IN  IF a.command = None /\ given = {}
        THEN \* `if len(argv) < 1`: parse_args(['help'])
             [ok |-> TRUE, error |-> None, func |-> None, values |-> EmptyFn]
        ELSE IF a.command = "help" /\ given = {}
        THEN [ok |-> TRUE, error |-> None, func |-> None, values |-> EmptyFn]
        ELSE IF a.command \notin RegisteredCommands
        THEN Rejected("invalid choice")
        ELSE IF ~(given \subseteq known)
        THEN Rejected("unrecognized arguments")
        ELSE IF \E i \in registered :
                   /\ params[i].class = "AccessLevelActionParameter"
                   /\ params[i].option \in given
                   /\ ~converted(params[i]).ok
        THEN Rejected("invalid choice")
        ELSE IF \E i \in registered : Cardinality(OptionNames(params[i]) \cap given) > 1
                                       /\ params[i].compat_flags # <<>>
        THEN Rejected("not allowed with argument")
        ELSE IF \E i \in registered : params[i].required /\ params[i].option \notin given
        THEN Rejected("the following arguments are required")
        ELSE [ok |-> TRUE, error |-> None, func |-> a.command,
              values |-> [d \in {params[i].dest : i \in registered} |->
                             value(params[CHOOSE i \in registered : params[i].dest = d])]]

\* main: cli.parse_args(sys.argv[1:]).  An error is SystemExit(2).
parse_args ==
    /\ pc = "start" /\ cmd # "access-level"
    /\ LET config == argparse_parse_args(argv)
       IN  IF config.ok
           THEN /\ parsed_options' = [func |-> config.func, values |-> config.values]
                /\ pc' = "parsed"
                /\ UNCHANGED trace
           ELSE /\ trace' = trace \o Tag(<<Log("error", config.error, <<>>, ""),
                                           Raise("SystemExit")>>, 0)
                /\ pc' = "exit"
                /\ UNCHANGED parsed_options
    /\ UNCHANGED << cmd, args, entries, glb, run, idx, users, pairs, projects_by_path,
                    processed_projects, argv, files, result >>

\* main: `if config.func is None: cli.print_help(); return`
print_help ==
    /\ pc = "parsed" /\ cmd # "access-level" /\ parsed_options.func = None
    /\ trace' = trace \o Tag(<<Event("print", "help", <<>>, "", <<>>, TRUE)>>, 0)
    /\ pc' = "done"
    /\ UNCHANGED << cmd, args, entries, glb, run, idx, users, pairs, projects_by_path,
                    processed_projects, argv, parsed_options, files, result >>

\* main: `glb = cli.get_gitlab_instance()`
get_gitlab_instance ==
    /\ pc = "parsed" /\ cmd # "access-level" /\ parsed_options.func # None
    /\ trace' = trace \o Tag(<<Event("instance", "Gitlab.from_config", <<>>, "", <<>>, TRUE)>>, 0)
    /\ pc' = "instance"
    /\ UNCHANGED << cmd, args, entries, glb, run, idx, users, pairs, projects_by_path,
                    processed_projects, argv, parsed_options, files, result >>

\* Mutant: an access-level parameter with compatibility switches resolves to
\* its default.
get_value_default(param, options) ==
    CASE param.class = "GitlabInstanceParameter" -> "glb"
      [] param.class = "LoggerParameter" -> "logger"
      [] param.class = "ActionEntriesParameter" -> "ActionEntries"
      [] param.class = "UserListParameter" -> "generator"
      [] param.class = "AccessLevelActionParameter" ->
            IF param.compat_flags # <<>>
            THEN gitlab_get_access_level(param.default)
            ELSE gitlab_get_access_level(options.values[param.dest])
      [] param.class = "ActionParameter" -> options.values[param.dest]

\* Parameter.get_value of each class.  The entries are read from the CSV at
\* once; the user list is a generator, which reads and looks up nothing
\* before it is iterated.
get_value(param, options) ==
    CASE param.class = "GitlabInstanceParameter" -> "glb"
      [] param.class = "LoggerParameter" -> "logger"
      [] param.class = "ActionEntriesParameter" -> "ActionEntries"
      [] param.class = "UserListParameter" -> "generator"
      [] param.class = "AccessLevelActionParameter" ->
            gitlab_get_access_level(options.values[param.dest])
      [] param.class = "ActionParameter" -> options.values[param.dest]

\* Mutant: the handler is called before the descriptors are resolved.
wrapper_handler_first ==
    /\ pc = "instance"
    /\ LET params == Parameters(parsed_options.func)
           kwargs == [d \in {params[i].dest : i \in DOMAIN params} |->
                         get_value(params[CHOOSE i \in DOMAIN params : params[i].dest = d],
                                   parsed_options)]
           resolve(i) == Event("resolve", params[i].class, <<>>, params[i].dest, <<>>, TRUE)
           fixed == [mock_users |-> cmd = "fork", allow_duplicates |-> cmd = "add-member"]
       IN  /\ args' = kwargs @@ fixed
           /\ trace' = trace \o Tag(<<Event("handler", cmd, <<>>, "", <<>>, TRUE)>>
                                    \o [i \in DOMAIN params |-> resolve(i)], 0)
    /\ pc' = IF cmd \in {"fork", "get-members"} THEN "called" ELSE "running"
    /\ UNCHANGED << cmd, entries, glb, run, idx, users, pairs, projects_by_path,
                    processed_projects, argv, parsed_options, files, result >>

\* wrapper(glb, cfg, callback): `kwargs[dest] = param.get_value(dest, glb, cfg)`
\* for each annotation, then `callback(**kwargs)`: the handler is entered.
wrapper ==
    /\ pc = "instance"
    /\ LET params == Parameters(parsed_options.func)
           kwargs == [d \in {params[i].dest : i \in DOMAIN params} |->
                         get_value(params[CHOOSE i \in DOMAIN params : params[i].dest = d],
                                   parsed_options)]
           resolve(i) == Event("resolve", params[i].class, <<>>, params[i].dest, <<>>, TRUE)
           \* what the handler and the descriptors fix themselves:
           \* UserListParameter(False) of fork, allow_duplicates of the resolvers
           fixed == [mock_users |-> cmd = "fork", allow_duplicates |-> cmd = "add-member"]
       IN  /\ args' = kwargs @@ fixed
           /\ trace' = trace \o Tag([i \in DOMAIN params |-> resolve(i)]
                                    \o <<Event("handler", cmd, <<>>, "", <<>>, TRUE)>>, 0)
    /\ pc' = IF cmd \in {"fork", "get-members"} THEN "called" ELSE "running"
    /\ UNCHANGED << cmd, entries, glb, run, idx, users, pairs, projects_by_path,
                    processed_projects, argv, parsed_options, files, result >>

\* mg.fork_project_idempotent and mg.wait_for_project_to_be_forked: the fork
\* exists at the target path afterwards.
fork_project_idempotent(g, to_full_path) == [g EXCEPT !.projects = @ \cup {to_full_path}]

\* Mutant: the failure of the parent lookup is caught and the loop is entered.
action_fork_enter_caught ==
    /\ pc = "called" /\ cmd = "fork"
    /\ LET from_project == get_canonical_project(glb, args.from_project)
           lookup == Call("projects.get", args.from_project, "", <<>>, from_project.ok)
       IN  /\ trace' = trace \o Tag(<<lookup>>, 0)
           /\ pc' = "running"
    /\ UNCHANGED << cmd, args, entries, glb, run, idx, users, pairs, projects_by_path,
                    processed_projects, argv, parsed_options, files, result >>

\* action_fork before its loop: `from_project = mg.get_canonical_project(...)`,
\* outside any try.
action_fork_enter ==
    /\ pc = "called" /\ cmd = "fork"
    /\ LET from_project == get_canonical_project(glb, args.from_project)
           lookup == Call("projects.get", args.from_project, "", <<>>, from_project.ok)
       IN  IF from_project.ok
           THEN /\ trace' = trace \o Tag(<<lookup>>, 0)
                /\ pc' = "running"
           ELSE /\ trace' = trace \o Tag(<<lookup, Raise("GitlabGetError")>>, 0)
                /\ pc' = "crashed"
    /\ UNCHANGED << cmd, args, entries, glb, run, idx, users, pairs, projects_by_path,
                    processed_projects, argv, parsed_options, files, result >>

\* action_fork, one iteration of `for user in users`.
action_fork ==
    /\ pc = "running" /\ cmd = "fork" /\ users # <<>>
    /\ LET user == Head(users)
           warning == IF user.is_mock
                      THEN <<Log("warning", "User not found.", <<>>, user.username)>>
                      ELSE <<>>
           to_full_path == format(args.to_project_template, user.row)
           info == Log("info", "Forking", to_full_path.value, user.username)
           fork(ok) == Call("projects.fork", to_full_path.value, user.username,
                            [from |-> args.from_project], ok)
           hide == IF args.hide_fork
                   THEN <<Call("forks.delete", to_full_path.value, "", <<>>, TRUE)>>
                   ELSE <<>>
       IN  IF user.is_mock /\ ~args.include_nonexistent
           THEN /\ trace' = trace \o Tag(warning, user.n)
                /\ UNCHANGED << glb, pc >>
           ELSE IF ~to_full_path.ok
           THEN /\ trace' = trace \o Tag(warning \o <<Raise("KeyError")>>, user.n)
                /\ pc' = "crashed"
                /\ UNCHANGED glb
           ELSE \/ /\ trace' = trace \o Tag(warning \o <<info, fork(TRUE)>> \o hide, user.n)
                   /\ glb' = fork_project_idempotent(glb, to_full_path.value)
                   /\ pc' = pc
                \/ /\ trace' = trace \o
                         Tag(warning \o <<info, fork(FALSE), Raise("GitlabCreateError")>>, user.n)
                   /\ pc' = "crashed"
                   /\ UNCHANGED glb
    /\ users' = Tail(users)
    /\ UNCHANGED << cmd, args, entries, run, idx, pairs, projects_by_path,
                    processed_projects, argv, parsed_options, files, result >>

\* action_members: the project is looked up outside any try, then its members
\* are listed and printed.
action_members ==
    /\ pc = "called" /\ cmd = "get-members"
    /\ LET project == get_canonical_project(glb, args.project)
           lookup == Call("projects.get", args.project, "", <<>>, project.ok)
           members == {k[2] : k \in {m \in DOMAIN glb.members : m[1] = args.project}}
       IN  IF project.ok
           THEN /\ trace' = trace \o
                      Tag(<<lookup, Call("members.list", args.project, "", <<>>, TRUE),
                            Event("print", "login,name", args.project, "", members, TRUE)>>, 0)
                /\ pc' = "done"
           ELSE /\ trace' = trace \o Tag(<<lookup, Raise("GitlabGetError")>>, 0)
                /\ pc' = "crashed"
    /\ UNCHANGED << cmd, args, entries, glb, run, idx, users, pairs, projects_by_path,
                    processed_projects, argv, parsed_options, files, result >>

\* ------------------------------------------------------ invocation: Init
\* The command lines: every required option with any of the other options of
\* the command, with an option no command has, with one required option left
\* out; an unknown command; help; nothing at all.  Access levels are typed as
\* "developer", "Maintainer" or "dev".
InitInvoke ==
    /\ LET LevelTexts ==
               {<<"d", "e", "v", "e", "l", "o", "p", "e", "r">>,
                <<"M", "a", "i", "n", "t", "a", "i", "n", "e", "r">>,
                <<"d", "e", "v">>}
           Options(c) == UNION {OptionNames(Parameters(c)[i]) : i \in DOMAIN Parameters(c)}
           Required(c) == {Parameters(c)[i].option :
                              i \in {j \in DOMAIN Parameters(c) : Parameters(c)[j].required}}
           Levels(c) == {Parameters(c)[i].option :
                            i \in {j \in DOMAIN Parameters(c) :
                                      Parameters(c)[j].class = "AccessLevelActionParameter"}}
           Value(c, name, text) ==
               CASE name \in Levels(c) -> text
                 [] name = "project" /\ c = "get-members" -> <<"student/", "alice">>
                 [] name = "project" /\ c # "get-members" -> project_template
                 [] name = "from" -> <<"student/", "alice">>
                 [] name = "to" -> to_project_template
                 [] name = "branch" -> DefaultArgs.branch_name
                 [] name = "tag" -> DefaultArgs.tag_name
                 [] name \in {"entries", "users"} -> "list.csv"
                 [] name = "login-column" -> login_column
                 [] OTHER -> TRUE
           CommandLine(c, given, text) ==
               [command |-> c, opts |-> [name \in given |-> Value(c, name, text)]]
       IN  \/ \E c \in RegisteredCommands, text \in LevelTexts :
                 \/ \E S \in SUBSET (Options(c) \ Required(c)) :
                       /\ (Levels(c) \cap (Required(c) \cup S) = {}) =>
                             text = <<"d", "e", "v">>
                       /\ argv = CommandLine(c, Required(c) \cup S, text)
                 \/ /\ text = <<"d", "e", "v", "e", "l", "o", "p", "e", "r">>
                    /\ \/ argv = CommandLine(c, Required(c) \cup {"bogus"}, text)
                       \/ \E r \in Required(c) : argv = CommandLine(c, Required(c) \ {r}, text)
           \/ \E c \in {"frobnicate", "help", None} : argv = [command |-> c, opts |-> EmptyFn]
    /\ cmd = argv.command
    /\ args = EmptyFn
    /\ entries \in EntryLists
    /\ \E projects \in ProjectSets, logins \in UserSets :
          glb = [EmptyGitlab EXCEPT !.projects = projects, !.users = logins]
    /\ run = 1
    /\ pc = "start"
    /\ idx = 1
    /\ users = <<>>
    /\ pairs = <<>>
    /\ projects_by_path = EmptyFn
    /\ processed_projects = {}
    /\ trace = <<>>
    /\ result = EmptyFn
    /\ parsed_options = None
    /\ files = EmptyFn

NextInvoke ==
    \/ parse_args
    \/ print_help
    \/ get_gitlab_instance
    \/ wrapper
    \/ action_fork_enter
    \/ action_fork
    \/ action_members
    \/ UserListParameter_get_value
    \/ as_gitlab_projects
    \/ as_existing_gitlab_projects
    \/ action_protect_branch
    \/ action_protect_tag
    \/ action_add_member
    \/ Return

SpecInvoke == InitInvoke /\ [][NextInvoke]_vars

\* ------------------------------------------------ the command line, read
\* The options the command of the command line has: its own, those of the
\* account list, the common ones.
OptionsOf(c) ==
    CASE c = "protect" -> {"entries", "project", "branch", "merge-access-level",
                           "developers-can-merge", "push-access-level", "developers-can-push"}
      [] c = "protect-tag" -> {"entries", "project", "tag", "create-access-level",
                               "developers-can-create", "maintainers-can-create"}
      [] c = "add-member" -> {"users", "login-column", "dry-run", "project", "access-level"}
      [] c = "fork" -> {"users", "login-column", "from", "to", "hide-fork",
                        "include-invalid-users"}
      [] c = "get-members" -> {"project", "inherited"}
      [] OTHER -> {}
RequiredOf(c) ==
    CASE c = "protect" -> {"entries", "project", "branch"}
      [] c = "protect-tag" -> {"entries", "project", "tag"}
      [] c = "add-member" -> {"users", "project", "access-level"}
      [] c = "fork" -> {"users", "from", "to"}
      [] c = "get-members" -> {"project"}
      [] OTHER -> {}
LevelOptions ==
    {"merge-access-level", "push-access-level", "create-access-level", "access-level"}
Given == DOMAIN argv.opts

\* The text is the name of a level in some letter case.
NamesLevel(text) ==
    \E l \in AccessLevel :
       /\ Len(text) = Len(Spelling(l.name))
       /\ \A i \in DOMAIN text :
             \/ text[i] = Spelling(l.name)[i]
             \/ text[i] \in DOMAIN ToUpper /\ ToUpper[text[i]] = Spelling(l.name)[i]

UnknownCommand == argv.command \notin RegisteredCommands \cup {"help", None}
UnknownOption ==
    argv.command \in RegisteredCommands
    /\ ~(Given \subseteq OptionsOf(argv.command) \cup {"debug", "config-file", "instance"})
MissingParameter ==
    argv.command \in RegisteredCommands /\ ~(RequiredOf(argv.command) \subseteq Given)
InvalidAccessLevel ==
    argv.command \in RegisteredCommands
    /\ \E name \in Given \cap LevelOptions : ~NamesLevel(argv.opts[name])

\* C14: a command line with a required option missing, an access level that
\* is the name of no level, an unknown command or an unknown option ends in
\* parse_args: no GitLab instance is created, no descriptor resolved, no
\* handler entered, no remote call made.
C14_RejectedAtParse ==
    (UnknownCommand \/ UnknownOption \/ MissingParameter \/ InvalidAccessLevel) =>
       /\ pc \in {"start", "exit"}
       /\ parsed_options = None
       /\ args = EmptyFn
       /\ \A i \in DOMAIN trace : trace[i].kind \in {"log", "raise"}
       /\ pc = "exit" => trace[Len(trace)] = [Raise("SystemExit") EXCEPT !.run = 1]

\* add-member --users list.csv --project student/{login} --access-level dev
\* has exited from parse_args.
C14_Witness ==
    /\ pc = "exit" /\ argv.command = "add-member"
    /\ Given = {"users", "project", "access-level"}
    /\ argv.opts["access-level"] = <<"d", "e", "v">>
    /\ InvalidAccessLevel /\ ~MissingParameter /\ ~UnknownOption
    /\ \A i \in DOMAIN trace : trace[i].kind # "call"

\* ------------------------------------------------ compatibility switches
\* The access-level options that have deprecated compatibility switches:
\* command, parameter, primary option, default, and the level of each switch.
CompatOptions ==
    { [command |-> "protect", dest |-> "merge_access_level",
       primary |-> "merge-access-level", default |-> MAINTAINER,
       switches |-> {<<"developers-can-merge", DEVELOPER>>}],
      [command |-> "protect", dest |-> "push_access_level",
       primary |-> "push-access-level", default |-> MAINTAINER,
       switches |-> {<<"developers-can-push", DEVELOPER>>}],
      [command |-> "protect-tag", dest |-> "create_access_level",
       primary |-> "create-access-level", default |-> NO_ACCESS,
       switches |-> {<<"developers-can-create", DEVELOPER>>,
                     <<"maintainers-can-create", MAINTAINER>>}] }

\* The handler has been entered with its parameters resolved.
Resolved == pc \in {"called", "running", "done", "crashed"}

\* C17: of the primary option and the compatibility switches of one
\* access-level option, two given together are rejected in parse_args; one
\* switch given alone resolves the parameter to the level of the switch; none
\* given resolves it to the default level.
C17_CompatSwitches ==
    \A o \in {x \in CompatOptions : x.command = argv.command} :
       LET supplied == Given \cap ({o.primary} \cup {s[1] : s \in o.switches})
       IN  /\ Cardinality(supplied) >= 2 => pc \in {"start", "exit"}
           /\ Resolved =>
                 /\ \A s \in o.switches :
                       supplied = {s[1]} =>
                          /\ args[o.dest] \in AccessLevel
                          /\ args[o.dest].value = s[2]
                 /\ supplied = {} =>
                       /\ args[o.dest] \in AccessLevel
                       /\ args[o.dest].value = o.default

\* protect-tag --maintainers-can-create ... has run with MAINTAINER as the
\* create level.
C17_Witness ==
    /\ cmd = "protect-tag" /\ pc = "done"
    /\ Given = {"entries", "project", "tag", "maintainers-can-create"}
    /\ args.create_access_level.value = MAINTAINER
    /\ \E i \in DOMAIN trace :
          /\ trace[i].op = "protectedtags.create" /\ trace[i].ok
          /\ trace[i].data.create_access_level = MAINTAINER

\* protect --developers-can-merge --merge-access-level developer ... has been
\* rejected.
C17_WitnessRejected ==
    /\ cmd = "protect" /\ pc = "exit"
    /\ Given = {"entries", "project", "branch", "developers-can-merge", "merge-access-level"}
    /\ NamesLevel(argv.opts["merge-access-level"])

\* ------------------------------------------------------ one-shot lookups
\* The lookup of the one project a command names (the parent of fork, the
\* project of get-members): a projects.get outside the rows.
OneShotLookups ==
    {i \in DOMAIN trace : trace[i].kind = "call" /\ trace[i].op = "projects.get"
                          /\ trace[i].row = 0}

\* C18: when the lookup of the parent project in fork, or of the project in
\* get-members, fails, the invocation ends with the exception: no account
\* lookup, no fork and no member listing is made.
C18_OneShotFatal ==
    cmd \in {"fork", "get-members"} =>
       \A i \in OneShotLookups :
          ~trace[i].ok =>
             /\ pc = "crashed"
             /\ i = Len(trace) - 1
             /\ trace[Len(trace)].kind = "raise" /\ trace[Len(trace)].op = "GitlabGetError"
             /\ \A j \in DOMAIN trace :
                   trace[j].op \notin {"users.list", "projects.fork", "forks.delete",
                                       "members.list"}
             /\ users = <<>> /\ idx = 1

\* fork for two rows whose accounts exist, with a parent project that does
\* not: the invocation has ended after the parent lookup.
C18_Witness ==
    /\ cmd = "fork" /\ pc = "crashed" /\ Len(entries) = 2
    /\ \A k \in DOMAIN entries : login_column \in DOMAIN entries[k]
                                 /\ entries[k][login_column] \in glb.users
    /\ \E i \in OneShotLookups : ~trace[i].ok
    /\ \A j \in DOMAIN trace : trace[j].op # "users.list"

\* get-members of a project that does not exist has ended after the lookup.
C18_WitnessMembers ==
    /\ cmd = "get-members" /\ pc = "crashed"
    /\ \E i \in OneShotLookups : ~trace[i].ok

\* --------------------------------------------- resolution and the handler
HandlerEntries == {i \in DOMAIN trace : trace[i].kind = "handler"}
Resolutions == {i \in DOMAIN trace : trace[i].kind = "resolve"}
RemoteCalls == {i \in DOMAIN trace : trace[i].kind = "call"}
AccountLookups == {i \in RemoteCalls : trace[i].op = "users.list"}
\* The remote calls the handler body issues itself.
HandlerCalls == RemoteCalls \ AccountLookups

\* C15 as stated: the account lookups of the account-list parameter are part
\* of its resolution, so each of them precedes the handler's entry and every
\* remote call of the handler body.
C15_Original ==
    \A i \in AccountLookups :
       /\ \A h \in HandlerEntries : i < h
       /\ \A j \in HandlerCalls : i < j

\* C15: the descriptors of the command are resolved one after the other in
\* the order they are declared, and then the handler is called; no remote
\* call is made before that.  The account-list parameter resolves to a stream
\* that has looked up nothing yet: every account lookup follows the handler's
\* entry, in fork also the lookup of the parent project, and the lookup of a
\* row follows the handler's calls for the rows before it.
C15_ResolvedThenCalled ==
    /\ Cardinality(HandlerEntries) <= 1
    /\ HandlerEntries # {} <=> (Resolved /\ parsed_options.func # None)
    /\ \A h \in HandlerEntries :
          LET params == Parameters(cmd)
              n == Len(params)
          IN  /\ Resolutions = (h - n)..(h - 1)
              /\ \A k \in 1..n : trace[h - n + k - 1].key = params[k].dest
              /\ \A i \in RemoteCalls : h < i
              /\ \A i \in AccountLookups :
                    /\ cmd = "fork" => \E p \in OneShotLookups : p < i /\ trace[p].ok
                    /\ \A j \in HandlerCalls : trace[j].row < trace[i].row => j < i
    /\ HandlerEntries = {} => Resolutions = {} /\ RemoteCalls = {}

\* add-member over two rows: the account of the second row was looked up
\* after the member of the first row had been created.
C15_Witness ==
    /\ cmd = "add-member" /\ pc = "done"
    /\ \E j, i \in DOMAIN trace :
          /\ j < i
          /\ trace[j].op = "members.create" /\ trace[j].ok /\ trace[j].row = 1
          /\ trace[i].op = "users.list" /\ trace[i].row = 2

\* ---------------------------------------------------------- remove-member
\* A step of remove-member's loop body for the pair at the head of pairs.
C21_Step ==
    (cmd = "remove-member" /\ pc = "running" /\ pairs # <<>> /\ pairs' = Tail(pairs)) =>
       LET pair == Head(pairs)
           key == <<pair.project, pair.user.id>>
           member == key \in DOMAIN glb.members
           deletes == SelectSeq(NewMutations, LAMBDA e : e.op = "members.delete")
       IN  /\ NewMutations = deletes
           /\ Len(deletes) <= 1
           /\ \A i \in DOMAIN deletes :
                 deletes[i].project = pair.project /\ deletes[i].key = pair.user.id
           /\ deletes # <<>> => member
           /\ (member /\ ~args.dry_run) => deletes # <<>>
           /\ (deletes # <<>> /\ deletes[1].ok) => key \notin DOMAIN glb'.members
           /\ ~member => glb' = glb
           /\ \A k \in DOMAIN glb.members \ {key} :
                 k \in DOMAIN glb'.members /\ glb'.members[k] = glb.members[k]
           /\ DOMAIN glb'.members \subseteq DOMAIN glb.members
           /\ pc' = "running"

AccountStep ==
    /\ cmd \in {"accounts", "as_existing_gitlab_projects"}
    /\ pc = "running" /\ idx' = idx + 1
NewLookups == SelectSeq(NewEvents, LAMBDA e : e.kind = "call" /\ e.op = "users.list")
\* The account the step has passed on, None when it passed on none.
PassedOn ==
    IF cmd = "accounts"
    THEN pairs'[Len(pairs')].user.username
    ELSE IF users' = users THEN None ELSE users'[Len(users')].username

\* The lookup of the step asks for the login of the row, its answer holds the
\* accounts that match, the first of them is passed on and nothing is raised
\* or reported for an answer of several.
FirstMatch ==
    \A i \in DOMAIN NewLookups :
       LET e == NewLookups[i]
       IN  /\ e.row = idx /\ e.key = entry_get(entries[idx], login_column)
           /\ {e.data[j] : j \in DOMAIN e.data} = users_list(glb, e.key)
           /\ e.data # <<>> =>
                 /\ PassedOn = e.data[1]
                 /\ \A j \in DOMAIN NewEvents :
                       NewEvents[j].kind # "raise"
                       /\ ~(NewEvents[j].kind = "log" /\ NewEvents[j].op \in {"warning", "error"})
                 /\ pc' = "running"

\* C22 as stated: for each entry exactly one lookup by login is made, and the
\* first match is used.
C22_Step ==
    AccountStep => Len(NewLookups) = 1 /\ FirstMatch

C22_Original == [][C22_Step]_vars

C22_AmendedStep ==
    AccountStep =>
       /\ Len(NewLookups) <= 1
       /\ Len(NewLookups) = 0 <=>
             (cmd = "accounts" /\ entry_get(entries[idx], login_column) = None)
       /\ NewLookups = <<>> => PassedOn = None
       /\ FirstMatch

\* C22: account resolution makes at most one lookup per entry: exactly one,
\* by the login of the entry, except that as_gitlab_users makes none for an
\* entry without a login; the first account of the answer is used and an
\* answer of several accounts is no error.
C22_OneLookup == [][C22_AmendedStep]_vars

\* get_value has come to a row without a login: the lookup without a
\* username was answered with two accounts and the first was passed on.
C22_Witness ==
    /\ cmd = "as_existing_gitlab_projects" /\ users # <<>>
    /\ \E i \in DOMAIN trace :
          /\ trace[i].op = "users.list" /\ trace[i].key = None
          /\ Len(trace[i].data) = 2
          /\ trace[i].row = users[Len(users)].n
          /\ users[Len(users)].username = trace[i].data[1]

\* as_gitlab_users has passed an entry without a login on with no lookup.
C22_WitnessNoLookup ==
    /\ cmd = "accounts" /\ entries # <<>> /\ idx > 1
    /\ entry_get(entries[1], login_column) = None
    /\ \A i \in EventsOf(1, 1) : trace[i].op # "users.list"
    /\ Yields(1, 1) # {}

\* ------------------------------------------------------- put-file: uploads
\* A step of put-file's loop body for the pair at the head of pairs.
PutFileStep == cmd = "put-file" /\ pc = "running" /\ pairs # <<>> /\ pairs' = Tail(pairs)
\* The target file of that pair in the repository, and the local file.
TargetKey ==
    <<Head(pairs).project, args.branch, format(args.to_file_template, Head(pairs).entry).value>>
TargetExists == TargetKey \in DOMAIN glb.repository_files
LocalFile == read_text(files, format(args.from_file_template, Head(pairs).entry).value)
SameContent ==
    TargetExists /\ LocalFile.ok
    /\ glb.repository_files[TargetKey].content = encode(LocalFile.value)
NewUploads == SelectSeq(NewEvents, LAMBDA e : e.kind = "call" /\ e.op = "files.put")
NewReads == SelectSeq(NewEvents, LAMBDA e : e.kind = "call" /\ e.op = "files.get")
NewLog(msg) == \E i \in DOMAIN NewEvents : NewEvents[i].kind = "log" /\ NewEvents[i].data.msg = msg
\* The step got as far as the comparison of the contents.
Compared == LocalFile.ok /\ \A i \in DOMAIN NewEvents : NewEvents[i].op \notin {"KeyError", "TypeError"}

\* C23 as stated: with --once no upload call is issued for a project in
\* which the target file exists, whatever its content.
C23_OriginalStep ==
    (PutFileStep /\ args.only_once /\ TargetExists) => NewUploads = <<>>

C23_Step ==
    (PutFileStep /\ args.only_once /\ Compared) =>
       /\ Len(NewUploads) <= 1
       /\ \A i \in DOMAIN NewUploads : ~NewUploads[i].data.overwrite
       /\ (TargetExists /\ SameContent) => NewUploads = <<>> /\ NewLog("No change")
       /\ (TargetExists /\ ~SameContent) =>
             /\ NewLog("Not overwriting") /\ ~NewLog("Uploading")
             /\ Len(NewUploads) = IF args.dry_run THEN 0 ELSE 1
       /\ ~TargetExists =>
             /\ NewLog("Uploading")
             /\ Len(NewUploads) = IF args.dry_run THEN 0 ELSE 1

InitDryRun ==
    \/ Init /\ cmd \in {"add-member", "remove-member"}
    \/ InitFiles /\ cmd = "put-file"

NextDryRun ==
    \/ UserListParameter_get_value
    \/ as_existing_gitlab_projects
    \/ as_gitlab_projects
    \/ action_add_member
    \/ action_remove_member
    \/ action_put_file_enter
    \/ action_put_file
    \/ Return
    \/ Rerun

SpecDryRun == InitDryRun /\ [][NextDryRun]_vars

DryRunMutatingOps == {"members.create", "members.save", "members.delete", "files.put"}

C24_Step ==
    args.dry_run =>
       /\ glb'.members = glb.members
       /\ glb'.repository_files = glb.repository_files
       /\ \A i \in DOMAIN NewEvents :
             ~(NewEvents[i].kind = "call" /\ NewEvents[i].op \in DryRunMutatingOps)

\* C24: with --dry-run no step of add-member, remove-member or put-file
\* issues a member create, save or delete or a file upload, and the remote
\* memberships and repository files stay as they were at every step, hence
\* over the whole invocation.
C24_DryRun == [][C24_Step]_vars

\* Dry runs went through their rows to the end: an add-member and a
\* remove-member announced a change of membership, a put-file an upload.
C24_Witness ==
    /\ args.dry_run /\ pc = "done" /\ Len(entries) = MaxRows
    /\ \E i \in DOMAIN trace :
          /\ trace[i].kind = "log" /\ trace[i].row = MaxRows
          /\ trace[i].data.msg \in {"Adding", "Removing", "Uploading"}

\* The templates of the row at the head of pairs expand and its local file
\* is there: the loop body gets as far as deciding on the upload.
Decides ==
    LET entry == Head(pairs).entry
        to_file == format(args.to_file_template, entry)
    IN  /\ to_file.ok
        /\ format_GL(args.commit_message_template, [target_filename |-> to_file.value],
                     entry).exc = None
        /\ format(args.from_file_template, entry).ok
        /\ LocalFile.ok

\* C25 as stated: without --force-commit and --once an upload is issued
\* exactly when the remote file is absent or differs from the local file;
\* with --force-commit nothing is read and every row with a local file is
\* uploaded.
C25_OriginalStep ==
    (PutFileStep /\ LocalFile.ok) =>
       /\ (~args.force_commit /\ ~args.only_once) =>
             (NewUploads # <<>> <=> (~TargetExists \/ ~SameContent))
       /\ args.force_commit => NewReads = <<>> /\ NewUploads # <<>>

C25_Original == [][C25_OriginalStep]_vars

C25_Step ==
    PutFileStep =>
       /\ ~Decides => NewUploads = <<>> /\ NewReads = <<>>
       /\ (Decides /\ ~args.force_commit) => Len(NewReads) = 1
       /\ (Decides /\ ~args.force_commit /\ ~args.only_once) =>
             /\ NewLog("Uploading") <=> (~TargetExists \/ ~SameContent)
             /\ NewLog("No change") <=> SameContent
             /\ Len(NewUploads) = IF ~args.dry_run /\ (~TargetExists \/ ~SameContent)
                                  THEN 1 ELSE 0
       /\ (Decides /\ args.force_commit) =>
             /\ NewReads = <<>>
             /\ NewLog("Uploading")
             /\ Len(NewUploads) = IF args.dry_run THEN 0 ELSE 1

\* C25: for a row whose templates expand and whose local file exists,
\* put-file without --force-commit and --once reads the remote file once,
\* decides to upload exactly when it is absent or its content differs from
\* the local file's, and issues the upload call exactly when it so decides
\* and --dry-run is not set; with --force-commit it never reads the remote
\* file, always decides to upload and issues the call unless --dry-run is
\* set.  A row that fails before this point reads and uploads nothing.
C25_UploadWhenNeeded == [][C25_Step]_vars

\* Without switches: alice's file differed and was uploaded, or was the same
\* and was left alone; with --force-commit it was uploaded unread.
C25_Witness ==
    /\ cmd = "put-file" /\ ~args.only_once /\ ~args.dry_run
    /\ \E j \in DOMAIN trace :
          /\ trace[j].kind = "call" /\ trace[j].op = "files.put" /\ trace[j].ok
          /\ args.force_commit <=>
                ~\E i \in DOMAIN trace :
                    /\ trace[i].kind = "call" /\ trace[i].op = "files.get"
                    /\ trace[i].row = trace[j].row

\* ------------------------------------------------- duplicates of a path
\* Row k of run r expands to a path that has a project.
Resolvable(k) == PathOf(k).ok /\ PathOf(k).value \in glb.projects
\* The pairs run r yielded for the rows of a path.
PairsOf(r, path) == UNION {Yields(r, k) : k \in RowsOf(r, path)}

\* C26: of the entries a project resolver is through with, when duplicates
\* are allowed every one whose path has a project is yielded in exactly one
\* pair, with its own entry and with the project the first entry of that path
\* was paired with; when duplicates are suppressed each path that has a
\* project and at least one entry is yielded in exactly one pair.  A path
\* without a project is in no pair.
C26_Duplicates ==
    \A r \in 1..run :
       ProjectResolver # None =>
          /\ args.allow_duplicates =>
                \A k \in ResolvedRows(r) :
                   Resolvable(k) =>
                      /\ Cardinality(Yields(r, k)) = 1
                      /\ \A i \in Yields(r, k) :
                            /\ trace[i].data = entries[k]
                            /\ trace[i].project =
                                  get_canonical_project(glb, PathOf(k).value).value
                            /\ \A j \in Earlier(r, k) : \A h \in Yields(r, j) :
                                  trace[h].project = trace[i].project
          /\ ~args.allow_duplicates =>
                \A path \in Paths :
                   (path \in glb.projects /\ RowsOf(r, path) # {}) =>
                      Cardinality(PairsOf(r, path)) = 1
          /\ \A path \in Paths :
                path \notin glb.projects => PairsOf(r, path) = {}

\* Two rows of alice, whose project exists: with duplicates allowed both
\* are paired with it.
C26_Witness ==
    /\ cmd \in ResolverCalls /\ args.allow_duplicates
    /\ pc = "done" /\ Len(entries) = 2
    /\ ResolvedRows(1) = {1, 2}
    /\ Resolvable(1) /\ PathOf(1) = PathOf(2)
    /\ Cardinality(Yields(1, 1)) = 1 /\ Cardinality(Yields(1, 2)) = 1

\* The same two rows with duplicates suppressed: one pair, made at row 1.
C26_WitnessSuppressed ==
    /\ cmd \in ResolverCalls /\ ~args.allow_duplicates
    /\ pc = "done" /\ Len(entries) = 2
    /\ ResolvedRows(1) = {1, 2}
    /\ Resolvable(1) /\ PathOf(1) = PathOf(2)
    /\ Cardinality(Yields(1, 1)) = 1 /\ Yields(1, 2) = {}

\* =============================================== get-pipeline-at-commit
\* `if not commit_sha`: None (no --commit, written <<>>) and the empty text
\* are falsy.
str_is_falsy(text) == \A i \in DOMAIN text : text[i] = ""

\* Mutant: the first pipeline from the commit on, skipped or not.
pipeline_is_reported_any(pipeline) == TRUE

\* `if pipeline.status != "skipped"`
pipeline_is_reported(pipeline) == pipeline.status # "skipped"

\* found_pipeline = None
NoPipeline == [id |-> 0, sha |-> <<>>, status |-> "none", jobs |-> <<>>]

\* The loop over project.pipelines.list(iterator=True) from position i on:
\* found_commit is set at the first pipeline of the commit (from the start
\* without a commit) and the first pipeline from there on that is not
\* skipped is taken; None when the listing ends first.
RECURSIVE find_pipeline(_, _, _, _)
find_pipeline(listing, commit_sha, found_commit, i) ==
    IF i > Len(listing) THEN NoPipeline
    ELSE LET found == found_commit \/ str_is_falsy(commit_sha)
                         \/ listing[i].sha = commit_sha
         IN  IF found /\ pipeline_is_reported(listing[i])
             THEN listing[i]
             ELSE find_pipeline(listing, commit_sha, found, i + 1)

\* The entry of the result for a project.
pipeline_report(found_pipeline) ==
    IF found_pipeline = NoPipeline
    THEN [status |-> "none"]
    ELSE [status |-> found_pipeline.status, id |-> found_pipeline.id,
          commit |-> found_pipeline.sha, jobs |-> found_pipeline.jobs]

\* action_get_pipeline_at_commit, one iteration of its for loop.  The
\* listing may fail, no GitlabError is caught.
action_get_pipeline_at_commit ==
    /\ pc = "running" /\ cmd = "get-pipeline-at-commit" /\ pairs # <<>>
    /\ LET pair == Head(pairs)
           f == IF args.commit = <<>> THEN [ok |-> TRUE, value |-> <<>>]
                ELSE format(args.commit, pair.entry)
           commit_sha == f.value
           listing == glb.pipelines[pair.project]
           found_pipeline == find_pipeline(listing, commit_sha, FALSE, 1)
           list(ok) == Call("pipelines.list", pair.project, "", listing, ok)
           jobs == IF found_pipeline = NoPipeline THEN <<>>
                   ELSE <<Call("jobs.list", pair.project, found_pipeline.id,
                               found_pipeline.jobs, TRUE)>>
       IN  IF ~f.ok
           THEN Uncaught(<<>>, "KeyError", pair.row) /\ UNCHANGED result
           ELSE \E failed \in BOOLEAN :
                   IF failed
                   THEN Uncaught(<<list(FALSE)>>, "GitlabListError", pair.row)
                        /\ UNCHANGED result
                   ELSE /\ NextPair(<<list(TRUE)>> \o jobs, pair.row)
                        /\ result' = Put(result, pair.project,
                                         pipeline_report(found_pipeline))
    /\ UNCHANGED << cmd, args, entries, glb, run, idx, users, projects_by_path,
                    processed_projects, argv, parsed_options, files >>

\* print(json.dumps(result, indent=4)) after the loop.
action_get_pipeline_at_commit_print ==
    /\ pc = "running" /\ cmd = "get-pipeline-at-commit"
    /\ idx > Len(entries) /\ pairs = <<>>
    /\ trace' = trace \o
          Tag(<<Event("print", "json", <<>>, "", result, TRUE)>>, Len(entries) + 1)
    /\ pc' = "done"
    /\ UNCHANGED << cmd, args, entries, glb, run, idx, users, pairs, projects_by_path,
                    processed_projects, argv, parsed_options, files, result >>

\* The rows: a login, and a sha column that names a commit, is empty, or is
\* not there.
PipelineRows ==
    {[login |-> "alice", sha |-> c] : c \in {"c1", "c2", ""}}
    \cup {[login |-> "bob", sha |-> "c1"], [login |-> "alice"]}
MaxPipelines == 3
\* A listing for alice's project: up to MaxPipelines pipelines, newest first,
\* any of them skipped; bob's project has one skipped pipeline of c1.
Pipeline(id, sha, status) ==
    [id |-> id, sha |-> <<sha>>, status |-> status,
     jobs |-> <<[status |-> status, id |-> 10 * id, name |-> "build"]>>]
PipelineListings ==
    UNION {{[i \in 1..n |-> Pipeline(n + 1 - i, c[i], s[i])] :
               c \in [1..n -> {"c1", "c2"}], s \in [1..n -> {"success", "skipped"}]} :
           n \in 0..MaxPipelines}

InitPipelines ==
    /\ cmd = "get-pipeline-at-commit"
    /\ \* without --commit, and --commit '{sha}'
       \E c \in {<<>>, << [kind |-> "col", text |-> "sha"] >>} :
          args = [commit |-> c, allow_duplicates |-> FALSE]
    /\ entries \in UNION {[1..n -> PipelineRows] : n \in 1..MaxRows}
    /\ \E projects \in ProjectSets : \E listing \in PipelineListings :
          glb = [EmptyGitlab EXCEPT
                    !.projects = projects,
                    !.pipelines =
                       [p \in projects |->
                           IF p = <<"student/", "alice">> THEN listing
                           ELSE <<Pipeline(1, "c1", "skipped")>>]]
    /\ run = 1
    /\ pc = "running"
    /\ idx = 1
    /\ users = <<>>
    /\ pairs = <<>>
    /\ projects_by_path = EmptyFn
    /\ processed_projects = {}
    /\ trace = <<>>
    /\ result = EmptyFn
    /\ argv = <<>>
    /\ parsed_options = None
    /\ files = EmptyFn

NextPipelines ==
    \/ as_gitlab_projects
    \/ action_get_pipeline_at_commit
    \/ action_get_pipeline_at_commit_print

SpecPipelines == InitPipelines /\ [][NextPipelines]_vars

\* The commit requested for row k: the expansion of --commit, <<>> without.
RequestedCommit(k) ==
    IF args.commit = <<>> THEN <<>> ELSE format(args.commit, entries[k]).value
Min(S) == CHOOSE x \in S : \A y \in S : x <= y
\* The position the search starts from: the first pipeline of the commit,
\* the start of the listing when no commit is asked for, 0 when the commit
\* is not in the listing.
StartOf(listing, commit_sha) ==
    LET at == {i \in DOMAIN listing : listing[i].sha = commit_sha}
    IN  IF str_is_falsy(commit_sha) THEN 1
        ELSE IF at = {} THEN 0 ELSE Min(at)
Candidates(listing, commit_sha) ==
    {j \in DOMAIN listing :
        /\ StartOf(listing, commit_sha) # 0
        /\ j >= StartOf(listing, commit_sha)
        /\ listing[j].status # "skipped"}
\* The rows whose pair the handler has taken, and the row of a project.
Reported(k) ==
    \E i \in DOMAIN trace :
       trace[i].row = k /\ trace[i].kind = "call" /\ trace[i].op = "pipelines.list"
       /\ trace[i].ok
RowOfProject(p) ==
    {k \in DOMAIN entries :
        \E i \in Yields(1, k) : trace[i].project = p}
Printed == {i \in DOMAIN trace : trace[i].kind = "print"}

\* C27: the result has an entry for exactly the projects whose pair the
\* handler has gone through.  The entry of a project is the first pipeline
\* of its listing, from the first pipeline of the row's commit on (from the
\* start when the row asks for no commit: no --commit, or an empty text),
\* that is not skipped, with its id, commit and jobs; a skipped pipeline is
\* never reported; the status is none when the commit is not in the listing
\* or every pipeline from it on is skipped.  What is printed at the end is
\* that result, with an entry for every resolved project.
C27_FirstUnskipped ==
    cmd = "get-pipeline-at-commit" =>
       /\ DOMAIN result = {p \in Paths : \E k \in RowOfProject(p) : Reported(k)}
       /\ \A p \in DOMAIN result :
             \A k \in RowOfProject(p) :
                LET listing == glb.pipelines[p]
                    found == Candidates(listing, RequestedCommit(k))
                IN  /\ result[p].status # "skipped"
                    /\ IF found = {}
                       THEN result[p] = [status |-> "none"]
                       ELSE LET pipeline == listing[Min(found)]
                            IN  result[p] = [status |-> pipeline.status,
                                             id |-> pipeline.id,
                                             commit |-> pipeline.sha,
                                             jobs |-> pipeline.jobs]
       /\ Cardinality(Printed) = IF pc = "done" THEN 1 ELSE 0
       /\ \A i \in Printed :
             /\ trace[i].data = result
             /\ DOMAIN result =
                   {p \in glb.projects : \E k \in DOMAIN entries : Expands(k, p)}

\* alice's listing starts with a skipped pipeline of the commit asked for
\* and goes on with a pipeline of another commit that ran: that one is
\* printed.
C27_Witness ==
    /\ cmd = "get-pipeline-at-commit" /\ pc = "done" /\ Printed # {}
    /\ \E p \in DOMAIN result : \E k \in RowOfProject(p) :
          LET listing == glb.pipelines[p]
          IN  /\ ~str_is_falsy(RequestedCommit(k))
              /\ Len(listing) >= 3
              /\ listing[1].sha # RequestedCommit(k)
              /\ listing[2].sha = RequestedCommit(k) /\ listing[2].status = "skipped"
              /\ listing[3].sha # RequestedCommit(k)
              /\ result[p].id = listing[3].id

\* The commit asked for is not in the listing: status none.
C27_WitnessNone ==
    /\ cmd = "get-pipeline-at-commit" /\ pc = "done" /\ Printed # {}
    /\ \E p \in DOMAIN result : \E k \in RowOfProject(p) :
          /\ ~str_is_falsy(RequestedCommit(k))
          /\ glb.pipelines[p] # <<>>
          /\ StartOf(glb.pipelines[p], RequestedCommit(k)) = 0
          /\ result[p] = [status |-> "none"]

\* --------------------------------------------------- create-tag: failures
CreateTagStep == cmd = "create-tag" /\ pc = "running" /\ pairs # <<>> /\ pairs' = Tail(pairs)
NewExcepts == SelectSeq(NewEvents, LAMBDA e : e.kind = "except")
NewRaises == SelectSeq(NewEvents, LAMBDA e : e.kind = "raise")
\* The answer is a bad request whose message ends with "already exists".
AlreadyExists(exp) ==
    /\ exp.response_code = 400
    /\ exp.error_message # <<>>
    /\ exp.error_message[Len(exp.error_message)] = " already exists"

C28_Step ==
    cmd = "create-tag" =>
       /\ pc # "crashed"
       /\ CreateTagStep =>
             /\ Len(NewExcepts) <= 1
             /\ NewExcepts # <<>> => glb' = glb
             /\ \A i \in DOMAIN NewExcepts :
                   IF AlreadyExists(NewExcepts[i].data)
                   THEN pc' = "running" /\ NewRaises = <<>>
                   ELSE /\ pc' = "crashed"
                        /\ Len(NewRaises) = 1 /\ NewRaises[1].op = "GitlabCreateError"
             /\ (glb'.tags # glb.tags) =>
                   /\ Head(pairs).project \notin {k[1] : k \in DOMAIN glb.tags}
                   /\ \A k \in DOMAIN glb.tags : glb'.tags[k] = glb.tags[k]

\* C28: a create failure that is a bad request with a message ending in
\* "already exists" is passed over, nothing is raised and the loop goes on
\* to the next row; every other create failure is raised again and ends the
\* command, after which no row is processed.  A failed create leaves the
\* tags as they were, and a create that goes through adds the tag to a
\* project that did not have it and touches no other: an invocation over
\* rows that are already tagged changes nothing.
C28_AlreadyExists == [][C28_Step]_vars

\* The second invocation over the same rows: the tag that the first one
\* created is refused as already existing, and the command returns.
C28_Witness ==
    /\ cmd = "create-tag" /\ run = 2 /\ pc = "done"
    /\ \E i, j \in DOMAIN trace :
          /\ trace[i].run = 1 /\ trace[i].kind = "call" /\ trace[i].op = "tags.create"
          /\ trace[i].ok
          /\ trace[j].run = 2 /\ trace[j].kind = "except"
          /\ trace[j].project = trace[i].project
          /\ AlreadyExists(trace[j].data)

\* Another failure at the first of two rows: the command ended there.
C28_WitnessAbort ==
    /\ cmd = "create-tag" /\ pc = "crashed" /\ Len(entries) = 2
    /\ \E i \in DOMAIN trace :
          /\ trace[i].kind = "except" /\ trace[i].row = 1
          /\ trace[i].data.response_code = 400
          /\ ~AlreadyExists(trace[i].data)
    /\ \A i \in DOMAIN trace : trace[i].row # 2

\* ======================================================= deadline-commit
\* output_template.format(commit=last_commit, **entry): a call with the
\* keyword commit given twice is a TypeError; {commit.id} is the id of the
\* commit, {column} is the entry's value.
format_commit(template, commit, entry) ==
    IF "commit" \in DOMAIN entry
    THEN [exc |-> "TypeError", value |-> <<>>]
    ELSE IF \E i \in DOMAIN template :
               template[i].kind = "col" /\ template[i].text \notin DOMAIN entry
         THEN [exc |-> "KeyError", value |-> <<>>]
         ELSE [exc |-> None,
               value |-> [i \in DOMAIN template |->
                             CASE template[i].kind = "lit" -> template[i].text
                               [] template[i].kind = "col" -> entry[template[i].text]
                               [] template[i].kind = "commit.id" -> commit.id]]

\* mg.get_commit_before_deadline(glb, project, deadline, branch,
\* commit_filter, prefer_tag): the last commit of the branch before the
\* deadline, GitlabGetError when there is none.
get_commit_before_deadline(g, project, branch) ==
    IF g.commits[project] = <<>>
    THEN [exc |-> "GitlabGetError", commit |-> [id |-> ""]]
    ELSE [exc |-> None, commit |-> [id |-> g.commits[project][1]]]

\* Mutant: the commit the failed lookup left, no placeholder.
last_commit_unmocked(answer) == answer.commit

\* `except gitlab.exceptions.GitlabGetError:
\*      last_commit = CommitMock('0000000000000000000000000000000000000000')`
last_commit_or_mock(answer) ==
    IF answer.exc = "GitlabGetError"
    THEN [id |-> "0000000000000000000000000000000000000000"]
    ELSE answer.commit

\* action_deadline_commits before its loop: print(output_header, file=output).
action_deadline_commits_enter ==
    /\ pc = "called" /\ cmd = "deadline-commit"
    /\ trace' = trace \o Tag(<<Event("print", "header", <<>>, "", args.output_header,
                                     TRUE)>>, 0)
    /\ pc' = "running"
    /\ UNCHANGED << cmd, args, entries, glb, run, idx, users, pairs, projects_by_path,
                    processed_projects, argv, parsed_options, files, result >>

\* action_deadline_commits, one iteration of its for loop.  The lookup may
\* fail with another error than GitlabGetError, which nothing catches.
action_deadline_commits ==
    /\ pc = "running" /\ cmd = "deadline-commit" /\ pairs # <<>>
    /\ LET pair == Head(pairs)
           entry == pair.entry
           prefer_tag == format(args.prefer_tag_template, entry)
           branch == format(args.branch_template, entry)
           lookup(ok) == Call("get_commit_before_deadline", pair.project, "",
                              branch.value, ok)
       IN  IF ~prefer_tag.ok \/ ~branch.ok
           THEN Uncaught(<<>>, "KeyError", pair.row)
           ELSE \E failed \in BOOLEAN :
                   LET answer == get_commit_before_deadline(glb, pair.project, branch.value)
                       last_commit == last_commit_or_mock(answer)
                       line == format_commit(args.output_template, last_commit, entry)
                       debug == Log("debug", "at", pair.project, last_commit.id)
                   IN  IF failed
                       THEN Uncaught(<<lookup(FALSE)>>, "GitlabListError", pair.row)
                       ELSE IF line.exc # None
                       THEN Uncaught(<<lookup(answer.exc = None), debug>>, line.exc, pair.row)
                       ELSE NextPair(<<lookup(answer.exc = None), debug,
                                       Event("print", "line", pair.project, "",
                                             line.value, TRUE)>>, pair.row)
    /\ UNCHANGED << cmd, args, entries, glb, run, idx, users, projects_by_path,
                    processed_projects, argv, parsed_options, files, result >>

InitDeadline ==
    /\ cmd = "deadline-commit"
    /\ LET \* --format '{login},{commit.id}' (the default) and '{team},{commit.id}'
           output_templates ==
              {<< [kind |-> "col", text |-> c], [kind |-> "lit", text |-> ","],
                  [kind |-> "commit.id", text |-> ""] >> : c \in {"login", "team"}}
           \* --branch master (the default) and '{branch}'; --prefer-tag is not given
           branch_templates ==
              {<< [kind |-> "lit", text |-> "master"] >>,
               << [kind |-> "col", text |-> "branch"] >>}
           DeadlineRows ==
              {[login |-> l] : l \in Logins} \cup
              {[login |-> "alice", team |-> "t1", branch |-> "main"],
               [login |-> "bob", commit |-> "c0"]}
       IN  /\ \E o \in output_templates, b \in branch_templates :
                 args = [output_header |-> "login,commit", output_template |-> o,
                         branch_template |-> b, prefer_tag_template |-> <<>>,
                         allow_duplicates |-> FALSE]
           /\ entries \in UNION {[1..n -> DeadlineRows] : n \in 0..MaxRows}
    /\ \E projects \in ProjectSets : \E c \in [projects -> {<<>>, <<"c1">>}] :
          glb = [EmptyGitlab EXCEPT !.projects = projects, !.commits = c]
    /\ run = 1
    /\ pc = "called"
    /\ idx = 1
    /\ users = <<>>
    /\ pairs = <<>>
    /\ projects_by_path = EmptyFn
    /\ processed_projects = {}
    /\ trace = <<>>
    /\ result = EmptyFn
    /\ argv = <<>>
    /\ parsed_options = None
    /\ files = EmptyFn

NextDeadline ==
    \/ action_deadline_commits_enter
    \/ as_gitlab_projects
    \/ action_deadline_commits
    \/ Return

SpecDeadline == InitDeadline /\ [][NextDeadline]_vars

\* The lines written for row k, and the lookups of the handler at row k.
Lines(k) == {i \in EventsOf(1, k) : trace[i].kind = "print" /\ trace[i].op = "line"}
Headers == {i \in DOMAIN trace : trace[i].kind = "print" /\ trace[i].op = "header"}
CommitLookups(k) ==
    {i \in EventsOf(1, k) :
        trace[i].kind = "call" /\ trace[i].op = "get_commit_before_deadline"}
NoCommit(p) == glb.commits[p] = <<>>

\* C29: the header is the first thing the command writes, before any lookup,
\* and it is written once.  A pair whose iteration ran to its end has exactly
\* one line, also when the lookup found no commit: the line then carries the
\* id of forty zeros, otherwise the id of the commit found.  Lines are in
\* the order of the rows.  An invocation that returns has written one line
\* for every pair the resolver yielded and none for any other row; only an
\* uncaught exception (a template that does not expand, a failure of the
\* lookup other than GitlabGetError) ends it earlier, at the row of the
\* exception.
C29_OneLinePerPair ==
    cmd = "deadline-commit" =>
       /\ pc # "called" =>
             /\ Headers = {1}
             /\ trace[1].data = args.output_header
       /\ \A k \in DOMAIN entries :
             /\ Cardinality(Lines(k)) <= 1
             /\ Lines(k) # {} => Yields(1, k) # {}
             /\ (CommitLookups(k) # {} /\ Raises(1, k) = {}) =>
                   Cardinality(Lines(k)) = 1
             /\ \A i \in CommitLookups(k) :
                   trace[i].ok => ~NoCommit(trace[i].project)
             /\ \A i \in Lines(k) :
                   LET id == trace[i].data[Len(trace[i].data)]
                       p == trace[i].project
                   IN  /\ trace[i].data[1] \in {entries[k][c] : c \in DOMAIN entries[k]}
                       /\ IF NoCommit(p)
                          THEN id = "0000000000000000000000000000000000000000"
                          ELSE id = glb.commits[p][1]
             /\ pc = "done" => (Yields(1, k) # {} => Cardinality(Lines(k)) = 1)
       /\ \A i, j \in DOMAIN trace :
             (i < j /\ trace[i].kind = "print" /\ trace[j].kind = "print") =>
                trace[i].row < trace[j].row
       /\ pc = "crashed" => \E k \in DOMAIN entries : Raises(1, k) # {}

\* Two rows: alice's project has no commit on the branch, bob's has one.
\* The header, alice's line with the zero id, bob's line with his commit.
C29_Witness ==
    /\ cmd = "deadline-commit" /\ pc = "done" /\ Len(entries) = 2
    /\ \E i \in Lines(1), j \in Lines(2) :
          /\ 1 < i /\ i < j
          /\ NoCommit(trace[i].project)
          /\ trace[i].data[Len(trace[i].data)] = "0000000000000000000000000000000000000000"
          /\ ~NoCommit(trace[j].project)
          /\ trace[j].data[Len(trace[j].data)] = "c1"
====
